---- MODULE Spec2Model ----
(***************************************************************************)
(* video-to-ascii: the SSH streaming server (video_to_ascii/ssh_server.py), *)
(* the strategy registry (render_strategy/__init__.py), the glyph and      *)
(* color functions (render_strategy/image_processor.py) and the cinematic  *)
(* strategy (render_strategy/cinematic_ascii_strategy.py).                 *)
(*                                                                         *)
(* One thread runs run_server (the accept loop); every accepted connection *)
(* is served by its own thread running handle_client, which calls          *)
(* SSHStreamStrategy.setup_engine and SSHStreamStrategy.stream_to_client.  *)
(* The client side of a connection is the environment: it may ask for a    *)
(* shell, and it may disconnect at any moment, after which every           *)
(* channel.send on that connection raises.                                 *)
(*                                                                         *)
(* Time is counted in microseconds.  A frame is identified by its position *)
(* in decode order (1, 2, ...); a payload is identified by its kind, its   *)
(* frame and its length, and a chunk data[i:i+chunk_size] by the byte      *)
(* range it covers.                                                        *)
(***************************************************************************)
EXTENDS Integers, Sequences, FiniteSets, TLC

\* ------------------------------------------------------------------ bounds
NSess == 2              \* connections the listener accepts in one run
MaxFrames == 2          \* frames the decoder yields at most
MaxPayload == 10000     \* longest payload handed to safe_send on its own
SmallText == 64         \* length of the short texts whose wording depends on the input
CostFast == 8000        \* a quick read+render, microseconds
CostSlow == 38000       \* a slow read+render, microseconds
NarrowWidth == 40       \* a narrow terminal's columns
WideWidth == 200        \* a wide terminal's columns
TallHeight == 50        \* a tall terminal's rows
SmallWidth == 20        \* a terminal narrower than the narrowest frame grid
ShortHeight == 10       \* a terminal shorter than the shortest frame grid
ChanStep == 15          \* distance between the sampled values of a color channel
MidGray == 128          \* the level of a mid-gray pixel
MaxFrameH == 3          \* rows of the tallest small frame
MaxFrameW == 4          \* columns of the widest small frame
MaxTermCols == 10       \* columns of the widest small terminal
MaxCalls == 4           \* frames given to one cinematic instance
WeakEdge == 30          \* a gradient magnitude under the threshold, in hundredths
StrongEdge == 70        \* a gradient magnitude over the threshold, in hundredths

Sess == 1..NSess

\* ------------------------------------------------------- program constants
chunk_size == 4096
ChunkDelay == 1000          \* time.sleep(0.001)
PrimingDelay == 500000      \* time.sleep(0.5)
DebugDelay == 1000000       \* time.sleep(1)
DefaultFps == 30
Second == 1000000
DefaultWidth == 80
DefaultHeight == 24
MinCols == 30
MaxCols == 80
MinRows == 15
MaxRows == 35
Margin == 5
ColorCellLen == 13          \* ESC[b;ccm + two characters + ESC[0m
GrayCellLen == 2
LenPreparing == 34
LenErrorOpen == 35
LenClear == 7
LenStarting == 23
LenHome == 3
LenComplete == 23
BannerLines == 4
MaxBright == 255
Scale == 10000

Max(a, b) == IF a >= b THEN a ELSE b
Min(a, b) == IF a <= b THEN a ELSE b

\* The strategy names main() accepts, and "none" for run_server's default None.
StrategyNames == {"none", "ascii-color", "just-ascii", "filled-ascii", "adaptive", "cinematic"}

\* render_strategy/__init__.py: one instance per key, built once at import.
\* An instance is named by its identity.
STRATEGIES ==
    [n \in {"default", "ascii-color", "just-ascii", "filled-ascii", "adaptive", "cinematic"} |->
        CASE n = "default" -> 1
          [] n = "ascii-color" -> 2
          [] n = "just-ascii" -> 3
          [] n = "filled-ascii" -> 4
          [] n = "adaptive" -> 5
          [] n = "cinematic" -> 6]

\* VideoEngine.set_strategy: the engine takes the registry's instance.
set_strategy(name) == STRATEGIES[name]

\* stream_to_client: any(s in self.strategy for s in ['color','adaptive','cinematic'])
IsColor(st) == st \in {"ascii-color", "adaptive", "cinematic"}

VARIABLES
    strategy,       \* run_server's strategy argument
    srv,            \* main: "main", "usage"; run_server: "start", "nofile", "bindfail",
                    \* "accepting", "shutdown"
    sock,           \* the listening socket: "none", "listening", "closed"
    pc,             \* each connection thread's position
    peer,           \* TRUE while the client is connected
    transport,      \* "none", "open", "closed"
    chan,           \* "none", "open", "closed"
    event,          \* SSHServerInterface.event
    terminal_width, terminal_height,
    render_strategy,\* identity of the engine's strategy instance, 0 before setup_engine
    cap,            \* "none", "unopened", "open", "released"
    pos,            \* frames read from the decoder
    frame_count,
    output,         \* the rendered frame: its grid and the length of the text
    snd,            \* safe_send's data and loop index
    ret,            \* safe_send's last return value
    log,            \* every channel.send call, in order
    now, t0, time_delta, elapsed, sleep_time,
    pty_req,        \* the width and height of the connection's last PTY request
    call, result,   \* a rendering function's arguments and what it returned
    cin,            \* a CinematicAsciiStrategy instance
    pty_pc,         \* the transport thread inside check_channel_pty_request: the height
                    \* it has still to store
    negotiated,     \* the dimension pairs of the connection's PTY requests, as stored
    st_cols         \* stream_to_client's local cols, read before rows

vars == <<strategy, srv, sock, pc, peer, transport, chan, event, terminal_width,
          terminal_height, render_strategy, cap, pos, frame_count, output, snd, ret, log,
          now, t0, time_delta, elapsed, sleep_time, pty_req, call, result, cin,
          pty_pc, negotiated, st_cols>>

\* what the server's own steps never touch: the record of PTY requests and the
\* rendering functions studied on their own
tearVars == <<pty_pc, negotiated, st_cols>>
auxVars == <<pty_req, call, result, cin, tearVars>>

srvVars == <<strategy, srv, sock>>
connVars == <<peer, transport, chan, event, terminal_width, terminal_height>>
playVars == <<render_strategy, cap, pos, frame_count, output>>
sendVars == <<snd, ret, log>>
timeVars == <<now, t0, time_delta, elapsed, sleep_time>>

NoSend == [k |-> "none", f |-> 0, n |-> 0, i |-> 0]

\* no PTY request yet, no rendering function called, a new cinematic instance
NoPty == <<>>
NoCall == [fn |-> "none"]
NoResult == [fn |-> "none"]
\* an attribute that is None (or not set), and one that holds an array of h rows and
\* w columns; gen is the call of resize_frame that computed it, on tells which
\* cells of a mask are set, mag and angle are a gradient field's values
None == [some |-> FALSE, h |-> 0, w |-> 0, gen |-> 0, on |-> "none", mag |-> 0, angle |-> 0]
\* CinematicAsciiStrategy.__init__; current_y and current_x are not set yet (-1)
NoCin ==
    [frame_count |-> 0, prev_frames |-> <<>>, prev_gray |-> None, prev_motion |-> None,
     human_mask |-> None, gradient_direction |-> None, gradient_magnitude |-> None,
     current_y |-> -1, current_x |-> -1]
\* no PTY request is being handled and none was, no frame is being rendered
NoTear ==
    /\ pty_pc = [s \in Sess |-> NoPty]
    /\ negotiated = [s \in Sess |-> {}]
    /\ st_cols = [s \in Sess |-> 0]

NoAux ==
    /\ NoTear
    /\ pty_req = [s \in Sess |-> NoPty]
    /\ call = NoCall
    /\ result = NoResult
    /\ cin = NoCin

\* ------------------------------------------------------------ stream sizes
\* stream_to_client, "Get safe terminal dimensions"
Cols(w) == Max(MinCols, Min(w - Margin, MaxCols))
Rows(h) == Max(MinRows, Min(h - Margin, MaxRows))
\* int(cols * aspect_ratio) with aspect_ratio = 0.4
NewWidth(cols) == (cols * 4) \div 10
\* len("\r\n".join(lines)): rows lines of new_width cells
OutputLen(st, w, h) ==
    Rows(h) * NewWidth(Cols(w)) * (IF IsColor(st) THEN ColorCellLen ELSE GrayCellLen)
        + 2 * (Rows(h) - 1)

NoOutput == [cols |-> 0, rows |-> 0, len |-> 0]

PayloadLen(k, s) ==
    CASE k = "preparing" -> LenPreparing
      [] k = "error_open" -> LenErrorOpen
      [] k = "clear" -> LenClear
      [] k = "starting" -> LenStarting
      [] k = "home" -> LenHome
      [] k = "complete" -> LenComplete
      [] k = "frame" -> output[s].len
      [] OTHER -> SmallText

Payload(k, f, s) == [k |-> k, f |-> f, n |-> PayloadLen(k, s), i |-> 0]

\* time.sleep that follows the return of safe_send(k) in stream_to_client
DelayAfter(k) ==
    CASE k \in {"preparing", "starting"} -> PrimingDelay
      [] k = "debug" -> DebugDelay
      [] OTHER -> 0

\* Cont with the cursor-home of the first frame forgotten: the frame follows the
\* size information directly.
Cont_NoHome(s, k, f, ok) ==
    CASE k = "preparing" -> [pc |-> "st_open", snd |-> NoSend]
      [] k = "error_open" -> [pc |-> "st_finally", snd |-> NoSend]
      [] k = "clear" -> [pc |-> "send", snd |-> Payload("starting", 0, s)]
      [] k = "starting" -> [pc |-> "st_loop", snd |-> NoSend]
      [] k = "debug" -> [pc |-> "send", snd |-> Payload("frame", f, s)]
      [] k = "home" -> [pc |-> "send", snd |-> Payload("frame", f, s)]
      [] k = "frame" -> [pc |-> IF ok THEN "st_pace" ELSE "st_release", snd |-> NoSend]
      [] k = "complete" -> [pc |-> "st_finally", snd |-> NoSend]
      [] k = "error_msg" -> [pc |-> "st_finally", snd |-> NoSend]
      [] OTHER -> [pc |-> "halt", snd |-> NoSend]

\* Where stream_to_client goes on when safe_send(k) has returned ok: the position,
\* and the payload of the next safe_send when the code calls it straight away.
\* Only the frame's return value is looked at.
Cont(s, k, f, ok) ==
    CASE k = "preparing" -> [pc |-> "st_open", snd |-> NoSend]
      [] k = "error_open" -> [pc |-> "st_finally", snd |-> NoSend]
      [] k = "clear" -> [pc |-> "send", snd |-> Payload("starting", 0, s)]
      [] k = "starting" -> [pc |-> "st_loop", snd |-> NoSend]
      [] k = "debug" -> [pc |-> "send", snd |-> Payload("home", f, s)]
      [] k = "home" -> [pc |-> "send", snd |-> Payload("frame", f, s)]
      [] k = "frame" -> [pc |-> IF ok THEN "st_pace" ELSE "st_release", snd |-> NoSend]
      [] k = "complete" -> [pc |-> "st_finally", snd |-> NoSend]
      [] k = "error_msg" -> [pc |-> "st_finally", snd |-> NoSend]
      [] OTHER -> [pc |-> "halt", snd |-> NoSend]

\* One channel.send call: bytes a..b of the payload (k, f) of n bytes, and whether
\* the call returned (ok) or raised.
Entry(k, f, n, a, b, ok) == [k |-> k, f |-> f, n |-> n, a |-> a, b |-> b, ok |-> ok]

\* ----------------------------------------------------------------------- main
\* main: the choices of the --strategy argument
choices == {"ascii-color", "just-ascii", "filled-ascii", "adaptive", "cinematic"}

\* parser.parse_args() accepts the arguments; main calls run_server.
MainParse ==
    /\ srv = "main"
    /\ strategy \in choices
    /\ srv' = "start"
    /\ UNCHANGED <<auxVars, strategy, sock, pc, connVars, playVars, sendVars, timeVars>>

\* parser.parse_args() rejects a strategy that is not among the choices: it prints
\* the usage and exits, run_server is never called.
MainUsage ==
    /\ srv = "main"
    /\ strategy \notin choices
    /\ srv' = "usage"
    /\ UNCHANGED <<auxVars, strategy, sock, pc, connVars, playVars, sendVars, timeVars>>

\* ---------------------------------------------------------------- run_server
\* run_server looking for the file only after socket, bind and listen
SrvNoFile_AfterBind ==
    /\ srv = "start"
    /\ srv' = "nofile"
    /\ sock' = "listening"
    /\ UNCHANGED <<auxVars, strategy, pc, connVars, playVars, sendVars, timeVars>>

\* os.path.exists(video_path) is false: print and return.
SrvNoFile ==
    /\ srv = "start"
    /\ srv' = "nofile"
    /\ UNCHANGED <<auxVars, strategy, sock, pc, connVars, playVars, sendVars, timeVars>>

\* socket, bind, listen
SrvBind ==
    /\ srv = "start"
    /\ srv' = "accepting"
    /\ sock' = "listening"
    /\ UNCHANGED <<auxVars, strategy, pc, connVars, playVars, sendVars, timeVars>>

\* bind raises: except Exception, finally sock.close()
SrvBindFail ==
    /\ srv = "start"
    /\ srv' = "bindfail"
    /\ sock' = "closed"
    /\ UNCHANGED <<auxVars, strategy, pc, connVars, playVars, sendVars, timeVars>>

\* sock.accept() returns a connection; a daemon thread runs handle_client on it.
SrvAccept(s) ==
    /\ srv = "accepting"
    /\ pc[s] = "idle"
    /\ \A t \in Sess : t < s => pc[t] # "idle"
    /\ pc' = [pc EXCEPT ![s] = "hc_start"]
    /\ peer' = [peer EXCEPT ![s] = TRUE]
    /\ UNCHANGED <<auxVars, srvVars, transport, chan, event, terminal_width, terminal_height,
                   playVars, sendVars, timeVars>>

\* KeyboardInterrupt (or an error of accept) ends the loop; finally sock.close().
SrvStop ==
    /\ srv = "accepting"
    /\ srv' = "shutdown"
    /\ sock' = "closed"
    /\ UNCHANGED <<auxVars, strategy, pc, connVars, playVars, sendVars, timeVars>>

\* --------------------------------------------------------------- the client
\* The client goes away; from now on channel.send raises on this connection.
Disconnect(s) ==
    /\ pc[s] \notin {"idle", "done", "halt"}
    /\ peer[s]
    /\ peer' = [peer EXCEPT ![s] = FALSE]
    /\ UNCHANGED <<auxVars, srvVars, pc, transport, chan, event, terminal_width, terminal_height,
                   playVars, sendVars, timeVars>>

\* The client asks for a shell: check_channel_shell_request sets the event.
ShellRequest(s) ==
    /\ pc[s] = "hc_wait"
    /\ peer[s]
    /\ ~event[s]
    /\ event' = [event EXCEPT ![s] = TRUE]
    /\ UNCHANGED <<auxVars, srvVars, pc, peer, transport, chan, terminal_width, terminal_height,
                   playVars, sendVars, timeVars>>

\* check_channel_pty_request as one dimension pair: both are stored only when both
\* are positive
PtyRequest_BothOrNothing(s, width, height) ==
    /\ transport[s] = "open"
    /\ chan[s] # "closed"
    /\ peer[s]
    /\ terminal_width' = [terminal_width EXCEPT
                              ![s] = IF width > 0 /\ height > 0 THEN width ELSE DefaultWidth]
    /\ terminal_height' = [terminal_height EXCEPT
                              ![s] = IF width > 0 /\ height > 0 THEN height ELSE DefaultHeight]
    /\ pty_req' = [pty_req EXCEPT ![s] = <<width, height>>]
    /\ UNCHANGED <<srvVars, pc, peer, transport, chan, event, playVars, sendVars, timeVars,
                   call, result, cin, tearVars>>

\* The client asks for a pseudo-terminal, at any moment of a live connection:
\* check_channel_pty_request(channel, term, width, height, ...) stores
\* width if width > 0 else 80 and height if height > 0 else 24, and returns True.
PtyRequest(s, width, height) ==
    /\ transport[s] = "open"
    /\ chan[s] # "closed"
    /\ peer[s]
    /\ terminal_width' = [terminal_width EXCEPT
                              ![s] = IF width > 0 THEN width ELSE DefaultWidth]
    /\ terminal_height' = [terminal_height EXCEPT
                              ![s] = IF height > 0 THEN height ELSE DefaultHeight]
    /\ pty_req' = [pty_req EXCEPT ![s] = <<width, height>>]
    /\ UNCHANGED <<srvVars, pc, peer, transport, chan, event, playVars, sendVars, timeVars,
                   call, result, cin, tearVars>>

\* check_channel_pty_request statement by statement, as the transport thread runs
\* it beside the connection's thread. Line 62: self.terminal_width is stored; the
\* height is still to be stored.
PtyStoreWidth(s, width, height) ==
    /\ transport[s] = "open"
    /\ chan[s] # "closed"
    /\ peer[s]
    /\ pty_pc[s] = NoPty
    /\ terminal_width' = [terminal_width EXCEPT
                              ![s] = IF width > 0 THEN width ELSE DefaultWidth]
    /\ pty_pc' = [pty_pc EXCEPT ![s] = <<height>>]
    /\ negotiated' = [negotiated EXCEPT
                         ![s] = @ \cup {<<IF width > 0 THEN width ELSE DefaultWidth,
                                          IF height > 0 THEN height ELSE DefaultHeight>>}]
    /\ pty_req' = [pty_req EXCEPT ![s] = <<width, height>>]
    /\ UNCHANGED <<srvVars, pc, peer, transport, chan, event, terminal_height, playVars,
                   sendVars, timeVars, call, result, cin, st_cols>>

\* Line 63: self.terminal_height is stored, and the handler returns True.
PtyStoreHeight(s) ==
    /\ pty_pc[s] # NoPty
    /\ terminal_height' = [terminal_height EXCEPT
                               ![s] = IF pty_pc[s][1] > 0 THEN pty_pc[s][1] ELSE DefaultHeight]
    /\ pty_pc' = [pty_pc EXCEPT ![s] = NoPty]
    /\ UNCHANGED <<srvVars, pc, peer, transport, chan, event, terminal_width, playVars,
                   sendVars, timeVars, pty_req, call, result, cin, negotiated, st_cols>>

\* ------------------------------------------------------------- handle_client
\* Transport(client), SSHServerInterface(), start_server
HcStart(s) ==
    /\ pc[s] = "hc_start"
    /\ peer[s]
    /\ transport' = [transport EXCEPT ![s] = "open"]
    /\ event' = [event EXCEPT ![s] = FALSE]
    /\ terminal_width' = [terminal_width EXCEPT ![s] = DefaultWidth]
    /\ terminal_height' = [terminal_height EXCEPT ![s] = DefaultHeight]
    /\ pc' = [pc EXCEPT ![s] = "hc_accept"]
    /\ UNCHANGED <<auxVars, srvVars, peer, chan, playVars, sendVars, timeVars>>

\* start_server raises (the negotiation fails): except, then finally.
HcStartFail(s) ==
    /\ pc[s] = "hc_start"
    /\ ~peer[s]
    /\ transport' = [transport EXCEPT ![s] = "open"]
    /\ pc' = [pc EXCEPT ![s] = "hc_finally"]
    /\ UNCHANGED <<auxVars, srvVars, peer, chan, event, terminal_width, terminal_height,
                   playVars, sendVars, timeVars>>

\* transport.accept(20) returns a channel
HcAccept(s) ==
    /\ pc[s] = "hc_accept"
    /\ peer[s]
    /\ chan' = [chan EXCEPT ![s] = "open"]
    /\ pc' = [pc EXCEPT ![s] = "hc_wait"]
    /\ UNCHANGED <<auxVars, srvVars, peer, transport, event, terminal_width, terminal_height,
                   playVars, sendVars, timeVars>>

\* transport.accept(20) returns None: return
HcNoChannel(s) ==
    /\ pc[s] = "hc_accept"
    /\ pc' = [pc EXCEPT ![s] = "hc_finally"]
    /\ UNCHANGED <<auxVars, srvVars, connVars, playVars, sendVars, timeVars>>

\* server.event.wait() without a timeout: the thread stays where it is for as long
\* as the event is not set
HcNoShell_WaitsOn(s) ==
    /\ pc[s] = "hc_wait"
    /\ ~event[s]
    /\ UNCHANGED vars

\* server.event.wait(10) ends with the event not set: return
HcNoShell(s) ==
    /\ pc[s] = "hc_wait"
    /\ ~event[s]
    /\ pc' = [pc EXCEPT ![s] = "hc_finally"]
    /\ UNCHANGED <<auxVars, srvVars, connVars, playVars, sendVars, timeVars>>

\* handle_client going on to the welcome message without looking at the event
HcShell_NoWait(s) ==
    /\ pc[s] = "hc_wait"
    /\ pc' = [pc EXCEPT ![s] = "hc_banner"]
    /\ snd' = [snd EXCEPT ![s] = [k |-> "banner", f |-> 1, n |-> 0, i |-> 0]]
    /\ UNCHANGED <<auxVars, srvVars, connVars, playVars, ret, log, timeVars>>

\* the event is set: go on to the welcome message
HcShell(s) ==
    /\ pc[s] = "hc_wait"
    /\ event[s]
    /\ pc' = [pc EXCEPT ![s] = "hc_banner"]
    /\ snd' = [snd EXCEPT ![s] = [k |-> "banner", f |-> 1, n |-> 0, i |-> 0]]
    /\ UNCHANGED <<auxVars, srvVars, connVars, playVars, ret, log, timeVars>>

\* setup_engine: VideoEngine(), load_video_from_file, set_strategy when a strategy
\* is given.
setup_engine(s) ==
    IF strategy # "none" THEN set_strategy(strategy) ELSE 0

\* One of the four channel.send calls of the welcome message.  After the last one:
\* SSHStreamStrategy(...), setup_engine(), and stream_to_client up to its first
\* safe_send.  A send that raises goes to except and finally.
HcBanner(s) ==
    /\ pc[s] = "hc_banner"
    /\ log' = [log EXCEPT ![s] = Append(@, Entry("banner", snd[s].f, 0, 0, 0, peer[s]))]
    /\ IF ~peer[s]
       THEN /\ pc' = [pc EXCEPT ![s] = "hc_finally"]
            /\ snd' = [snd EXCEPT ![s] = NoSend]
            /\ UNCHANGED render_strategy
       ELSE IF snd[s].f < BannerLines
       THEN /\ snd' = [snd EXCEPT ![s].f = @ + 1]
            /\ UNCHANGED <<pc, render_strategy>>
       ELSE /\ render_strategy' = [render_strategy EXCEPT ![s] = setup_engine(s)]
            /\ snd' = [snd EXCEPT ![s] = Payload("preparing", 0, s)]
            /\ pc' = [pc EXCEPT ![s] = "send"]
    /\ UNCHANGED <<auxVars, srvVars, connVars, cap, pos, frame_count, output, ret, timeVars>>

\* HcFinally with the failure carried to the accept loop: the listener is closed too.
HcFinally_StopsServer(s) ==
    /\ pc[s] = "hc_finally"
    /\ transport' = [transport EXCEPT ![s] = "closed"]
    /\ chan' = [chan EXCEPT ![s] = IF @ = "open" THEN "closed" ELSE @]
    /\ pc' = [pc EXCEPT ![s] = "done"]
    /\ srv' = IF srv = "accepting" THEN "shutdown" ELSE srv
    /\ sock' = IF srv = "accepting" THEN "closed" ELSE sock
    /\ UNCHANGED <<auxVars, strategy, peer, event, terminal_width, terminal_height,
                   playVars, sendVars, timeVars>>

\* finally: transport.close(), which closes the connection's channel too
HcFinally(s) ==
    /\ pc[s] = "hc_finally"
    /\ transport' = [transport EXCEPT ![s] = "closed"]
    /\ chan' = [chan EXCEPT ![s] = IF @ = "open" THEN "closed" ELSE @]
    /\ pc' = [pc EXCEPT ![s] = "done"]
    /\ UNCHANGED <<auxVars, srvVars, peer, event, terminal_width, terminal_height,
                   playVars, sendVars, timeVars>>

\* ------------------------------------------------------------------ safe_send
\* SendChunk with the range one too long, range(0, len(data) + 1, chunk_size): a
\* last, empty chunk when the length is a multiple of chunk_size.
SendChunk_OneMore(s) ==
    /\ pc[s] = "send"
    /\ snd[s].i <= snd[s].n
    /\ peer[s]
    /\ log' = [log EXCEPT ![s] =
                  Append(@, Entry(snd[s].k, snd[s].f, snd[s].n, snd[s].i,
                                  Min(snd[s].i + chunk_size, snd[s].n), TRUE))]
    /\ snd' = [snd EXCEPT ![s].i = @ + chunk_size]
    /\ now' = [now EXCEPT ![s] = @ + ChunkDelay]
    /\ UNCHANGED <<auxVars, srvVars, pc, connVars, playVars, ret, t0, time_delta, elapsed,
                   sleep_time>>

\* One turn of the loop: channel.send(data[i:i+chunk_size]), time.sleep(0.001).
SendChunk(s) ==
    /\ pc[s] = "send"
    /\ snd[s].i < snd[s].n
    /\ peer[s]
    /\ log' = [log EXCEPT ![s] =
                  Append(@, Entry(snd[s].k, snd[s].f, snd[s].n, snd[s].i,
                                  Min(snd[s].i + chunk_size, snd[s].n), TRUE))]
    /\ snd' = [snd EXCEPT ![s].i = @ + chunk_size]
    /\ now' = [now EXCEPT ![s] = @ + ChunkDelay]
    /\ UNCHANGED <<auxVars, srvVars, pc, connVars, playVars, ret, t0, time_delta, elapsed,
                   sleep_time>>

\* channel.send raises: print, return False; the caller goes on.
SendFail(s) ==
    /\ pc[s] = "send"
    /\ snd[s].i < snd[s].n
    /\ ~peer[s]
    /\ log' = [log EXCEPT ![s] =
                  Append(@, Entry(snd[s].k, snd[s].f, snd[s].n, snd[s].i,
                                  Min(snd[s].i + chunk_size, snd[s].n), FALSE))]
    /\ ret' = [ret EXCEPT ![s] = FALSE]
    /\ pc' = [pc EXCEPT ![s] = Cont(s, snd[s].k, snd[s].f, FALSE).pc]
    /\ snd' = [snd EXCEPT ![s] = Cont(s, snd[s].k, snd[s].f, FALSE).snd]
    /\ now' = [now EXCEPT ![s] = @ + DelayAfter(snd[s].k)]
    /\ UNCHANGED <<auxVars, srvVars, connVars, playVars, t0, time_delta, elapsed, sleep_time>>

\* The loop is over: return True; the caller goes on.
SendDone(s) ==
    /\ pc[s] = "send"
    /\ snd[s].i >= snd[s].n
    /\ ret' = [ret EXCEPT ![s] = TRUE]
    /\ pc' = [pc EXCEPT ![s] = Cont(s, snd[s].k, snd[s].f, TRUE).pc]
    /\ snd' = [snd EXCEPT ![s] = Cont(s, snd[s].k, snd[s].f, TRUE).snd]
    /\ now' = [now EXCEPT ![s] = @ + DelayAfter(snd[s].k)]
    /\ UNCHANGED <<auxVars, srvVars, connVars, playVars, log, t0, time_delta, elapsed, sleep_time>>

\* ----------------------------------------------------------- stream_to_client
\* cv2.VideoCapture(video_path) opens; fps = cap.get(CAP_PROP_FPS) or 30;
\* time_delta = 1./fps; then the screen clear is sent.
StOpen(s, fps) ==
    /\ pc[s] = "st_open"
    /\ cap' = [cap EXCEPT ![s] = "open"]
    /\ time_delta' = [time_delta EXCEPT ![s] =
                         Second \div (IF fps = 0 THEN DefaultFps ELSE fps)]
    /\ snd' = [snd EXCEPT ![s] = Payload("clear", 0, s)]
    /\ pc' = [pc EXCEPT ![s] = "send"]
    /\ UNCHANGED <<auxVars, srvVars, connVars, render_strategy, pos, frame_count, output, ret, log,
                   now, t0, elapsed, sleep_time>>

\* stream_to_client without the return of line 116: the decoder did not open and the
\* stream goes on with the clear-screen text
StOpenFail_Plays(s) ==
    /\ pc[s] = "st_open"
    /\ cap' = [cap EXCEPT ![s] = "unopened"]
    /\ snd' = [snd EXCEPT ![s] = Payload("clear", 0, s)]
    /\ pc' = [pc EXCEPT ![s] = "send"]
    /\ UNCHANGED <<auxVars, srvVars, connVars, render_strategy, pos, frame_count, output, ret, log,
                   timeVars>>

\* cap.isOpened() is false: send the error text and return.
StOpenFail(s) ==
    /\ pc[s] = "st_open"
    /\ cap' = [cap EXCEPT ![s] = "unopened"]
    /\ snd' = [snd EXCEPT ![s] = Payload("error_open", 0, s)]
    /\ pc' = [pc EXCEPT ![s] = "send"]
    /\ UNCHANGED <<auxVars, srvVars, connVars, render_strategy, pos, frame_count, output, ret, log,
                   timeVars>>

\* The text of one frame for the terminal size the server holds now.
Render(s) ==
    [cols |-> Cols(terminal_width[s]),
     rows |-> Rows(terminal_height[s]),
     len |-> OutputLen(strategy, terminal_width[s], terminal_height[s])]

\* One turn of the playback loop up to its first send: t0 = time.time(), cap.read()
\* yields a frame, the frame is rendered (taking d in all); on the first frame the
\* size information is sent next, on later frames the cursor-home.
StFrame(s, d) ==
    /\ pc[s] = "st_loop"
    /\ cap[s] = "open"
    /\ pos[s] < MaxFrames
    /\ t0' = [t0 EXCEPT ![s] = now[s]]
    /\ now' = [now EXCEPT ![s] = @ + d]
    /\ pos' = [pos EXCEPT ![s] = @ + 1]
    /\ output' = [output EXCEPT ![s] = Render(s)]
    /\ snd' = [snd EXCEPT ![s] =
                  [k |-> IF frame_count[s] = 0 THEN "debug" ELSE "home",
                   f |-> pos[s] + 1,
                   n |-> IF frame_count[s] = 0 THEN SmallText ELSE LenHome,
                   i |-> 0]]
    /\ pc' = [pc EXCEPT ![s] = "send"]
    /\ UNCHANGED <<auxVars, srvVars, connVars, render_strategy, cap, frame_count, ret, log,
                   time_delta, elapsed, sleep_time>>

\* The same turn statement by statement. Lines 133-139: t0 = time.time(),
\* cap.read() yields a frame, cols is computed from self.server.terminal_width.
StReadCols(s) ==
    /\ pc[s] = "st_loop"
    /\ cap[s] = "open"
    /\ pos[s] < MaxFrames
    /\ t0' = [t0 EXCEPT ![s] = now[s]]
    /\ pos' = [pos EXCEPT ![s] = @ + 1]
    /\ st_cols' = [st_cols EXCEPT ![s] = Cols(terminal_width[s])]
    /\ pc' = [pc EXCEPT ![s] = "st_rows"]
    /\ UNCHANGED <<srvVars, connVars, render_strategy, cap, frame_count, output, sendVars,
                   now, time_delta, elapsed, sleep_time, pty_req, call, result, cin,
                   pty_pc, negotiated>>

\* Lines 140-234: rows is computed from self.server.terminal_height, the frame is
\* rendered on cols x rows, and the turn's first send is prepared.
StRenderRows(s, d) ==
    /\ pc[s] = "st_rows"
    /\ now' = [now EXCEPT ![s] = @ + d]
    /\ output' = [output EXCEPT ![s] =
                     [cols |-> st_cols[s],
                      rows |-> Rows(terminal_height[s]),
                      len |-> Rows(terminal_height[s]) * NewWidth(st_cols[s])
                                  * (IF IsColor(strategy) THEN ColorCellLen ELSE GrayCellLen)
                              + 2 * (Rows(terminal_height[s]) - 1)]]
    /\ snd' = [snd EXCEPT ![s] =
                  [k |-> IF frame_count[s] = 0 THEN "debug" ELSE "home",
                   f |-> pos[s],
                   n |-> IF frame_count[s] = 0 THEN SmallText ELSE LenHome,
                   i |-> 0]]
    /\ pc' = [pc EXCEPT ![s] = "send"]
    /\ UNCHANGED <<auxVars, srvVars, connVars, render_strategy, cap, pos, frame_count, ret, log,
                   t0, time_delta, elapsed, sleep_time>>

\* cap.read() yields a frame and a cv2 call of the rendering raises: the except
\* branch of stream_to_client.
StRenderRaise(s) ==
    /\ pc[s] = "st_loop"
    /\ cap[s] = "open"
    /\ pos[s] < MaxFrames
    /\ t0' = [t0 EXCEPT ![s] = now[s]]
    /\ pos' = [pos EXCEPT ![s] = @ + 1]
    /\ pc' = [pc EXCEPT ![s] = "st_except"]
    /\ UNCHANGED <<auxVars, srvVars, connVars, render_strategy, cap, frame_count, output, sendVars,
                   now, time_delta, elapsed, sleep_time>>

\* cap.read() returns no frame: break.
StReadEnd(s) ==
    /\ pc[s] = "st_loop"
    /\ cap[s] = "open"
    /\ t0' = [t0 EXCEPT ![s] = now[s]]
    /\ pc' = [pc EXCEPT ![s] = "st_release"]
    /\ UNCHANGED <<auxVars, srvVars, connVars, playVars, sendVars, now, time_delta, elapsed,
                   sleep_time>>

\* SleepTime without the max.
SleepTime_Unclamped(delta, el) == delta - el

\* sleep_time = max(0, time_delta - elapsed)
SleepTime(delta, el) == Max(0, delta - el)

\* StPace catching up: a frame that overran its interval makes the loop skip the
\* next frame of the decoder.
StPace_CatchUp(s) ==
    /\ pc[s] = "st_pace"
    /\ frame_count' = [frame_count EXCEPT ![s] = @ + 1]
    /\ elapsed' = [elapsed EXCEPT ![s] = now[s] - t0[s]]
    /\ sleep_time' = [sleep_time EXCEPT ![s] = Max(0, time_delta[s] - (now[s] - t0[s]))]
    /\ now' = [now EXCEPT ![s] = @ + Max(0, time_delta[s] - (now[s] - t0[s]))]
    /\ pos' = [pos EXCEPT ![s] = IF now[s] - t0[s] > time_delta[s] THEN @ + 1 ELSE @]
    /\ pc' = [pc EXCEPT ![s] = "st_loop"]
    /\ UNCHANGED <<auxVars, srvVars, connVars, render_strategy, cap, output, sendVars, t0,
                   time_delta>>

\* The frame was sent: frame_count += 1, elapsed, sleep_time, time.sleep(sleep_time).
StPace(s) ==
    /\ pc[s] = "st_pace"
    /\ frame_count' = [frame_count EXCEPT ![s] = @ + 1]
    /\ elapsed' = [elapsed EXCEPT ![s] = now[s] - t0[s]]
    /\ sleep_time' = [sleep_time EXCEPT ![s] = SleepTime(time_delta[s], now[s] - t0[s])]
    /\ now' = [now EXCEPT ![s] = @ + SleepTime(time_delta[s], now[s] - t0[s])]
    /\ pc' = [pc EXCEPT ![s] = "st_loop"]
    /\ UNCHANGED <<auxVars, srvVars, connVars, render_strategy, cap, pos, output, sendVars, t0,
                   time_delta>>

\* StRelease without the completion message.
StRelease_Silent(s) ==
    /\ pc[s] = "st_release"
    /\ cap' = [cap EXCEPT ![s] = "released"]
    /\ pc' = [pc EXCEPT ![s] = "st_finally"]
    /\ UNCHANGED <<auxVars, srvVars, connVars, render_strategy, pos, frame_count, output, sendVars,
                   timeVars>>

\* After the loop: cap.release(), then the completion message is sent.
StRelease(s) ==
    /\ pc[s] = "st_release"
    /\ cap' = [cap EXCEPT ![s] = "released"]
    /\ snd' = [snd EXCEPT ![s] = Payload("complete", 0, s)]
    /\ pc' = [pc EXCEPT ![s] = "send"]
    /\ UNCHANGED <<auxVars, srvVars, connVars, render_strategy, pos, frame_count, output, ret, log,
                   timeVars>>

\* except Exception: the error text is sent.
StExcept(s) ==
    /\ pc[s] = "st_except"
    /\ snd' = [snd EXCEPT ![s] = Payload("error_msg", 0, s)]
    /\ pc' = [pc EXCEPT ![s] = "send"]
    /\ UNCHANGED <<auxVars, srvVars, connVars, playVars, ret, log, timeVars>>

\* StFinally closing the channel only after a playback that came to its end
StFinally_OnSuccess(s) ==
    /\ pc[s] = "st_finally"
    /\ chan' = [chan EXCEPT ![s] = IF cap[s] = "released" THEN "closed" ELSE @]
    /\ pc' = [pc EXCEPT ![s] = "hc_finally"]
    /\ UNCHANGED <<auxVars, srvVars, peer, transport, event, terminal_width, terminal_height,
                   playVars, sendVars, timeVars>>

\* finally: channel.close(); stream_to_client returns to handle_client, which has
\* nothing left but its own finally.
StFinally(s) ==
    /\ pc[s] = "st_finally"
    /\ chan' = [chan EXCEPT ![s] = "closed"]
    /\ pc' = [pc EXCEPT ![s] = "hc_finally"]
    /\ UNCHANGED <<auxVars, srvVars, peer, transport, event, terminal_width, terminal_height,
                   playVars, sendVars, timeVars>>

\* ---------------------------------------- render_strategy/image_processor.py
CHARS_LIGHT == <<" ", " ", ".", ":", "!", "+", "*", "e", "$", "@", "8">>
\* a symbol outside ASCII (and, below, the backquote, the double quote and the
\* backslash) is written by its code point
CHARS_COLOR == <<".", "*", "e", "s", "U+25CD">>
CHARS_FILLED == <<"U+2591", "U+2592", "U+2593", "U+2588">>
CHARS_DETAILED ==
    <<" ", ".", "U+00B7", ":", ";", "'", "U+0060", "U+0022", "^", ",", "-", "~", "+", "<", ">", "i",
      "!", "I", "/", "U+005C", "|", "(", ")", "1", "{", "}", "[", "]", "r", "c", "v", "?", "L",
      "T", "J", "7", "F", "z", "s", "S", "Z", "Y", "x", "X", "V", "K", "n", "N", "k", "K",
      "H", "A", "G", "E", "8", "&", "%", "@", "#">>

\* DENSITY[density] of the source is DENSITY[density + 1] here
DENSITY == <<CHARS_LIGHT, CHARS_COLOR, CHARS_FILLED, CHARS_DETAILED>>
Densities == 0..(Len(DENSITY) - 1)

\* A brightness is a float of the source.  It is kept as the number of
\* ten-thousandths n of its exact value, with lo telling that the float the
\* program holds lies just under n / Scale (the sum of the three products was
\* rounded down).
Float(n, lo) == [n |-> n, lo |-> lo]
\* the float of an integer is exact
Exact(v) == Float(v * Scale, FALSE)

\* int(x) for a float x >= 0 whose exact value is num / den, the float lying just
\* under it when lo: a float just under a whole number is cut to the number below
Trunc(num, den, lo) ==
    IF lo /\ num % den = 0 /\ num > 0 THEN (num \div den) - 1 ELSE num \div den

\* brightness_to_ascii with the brightness divided by 256
brightness_index_Over256(i, density) ==
    ((Len(DENSITY[density + 1]) - 1) * i.n) \div (256 * Scale)

\* brightness_to_ascii: size = len(chars_collection) - 1; index = int(size * i / 255).
brightness_index(i, density) ==
    LET size == Len(DENSITY[density + 1]) - 1
    IN  Trunc(size * i.n, MaxBright * Scale, i.lo)

\* return chars_collection[index]
brightness_to_ascii(i, density) == DENSITY[density + 1][brightness_index(i, density) + 1]

\* A call brightness_to_ascii(i, density) returns.
DoBrightnessToAscii ==
    /\ call.fn = "brightness_to_ascii"
    /\ result = NoResult
    /\ result' = [fn |-> "brightness_to_ascii",
                  index |-> brightness_index(call.i, call.density),
                  char |-> brightness_to_ascii(call.i, call.density)]
    /\ UNCHANGED <<srvVars, pc, connVars, playVars, sendVars, timeVars, pty_req, call, cin, tearVars>>

\* round(n / d) of Python: the nearest whole number, a tie going to the even one
Round(n, d) ==
    LET q == n \div d
        rem == n % d
    IN  IF 2 * rem < d THEN q
        ELSE IF 2 * rem > d THEN q + 1
        ELSE IF q % 2 = 0 THEN q ELSE q + 1

\* to_ansi_range without the round: int(a / 51.0)
to_ansi_range_Trunc(a) == a \div 51

\* to_ansi_range = lambda a: int(round(a / 51.0))
to_ansi_range(a) == Round(a, 51)

\* rgb_to_ansi without the gray branch
rgb_to_ansi_NoGray(r, g, b) ==
    16 + 36 * to_ansi_range(r) + 6 * to_ansi_range(g) + to_ansi_range(b)

\* rgb_to_ansi, after (r, g, b) = int(r), int(g), int(b).  The test
\* `r == g & g == b` is the chained comparison r == (g & g) == b, and g & g is g.
rgb_to_ansi(r, g, b) ==
    IF r = g /\ g = b
    THEN IF r < 8 THEN 16
         ELSE IF r > 248 THEN 230
         ELSE Round((r - 8) * 24, 247) + 232
    ELSE 16 + 36 * to_ansi_range(r) + 6 * to_ansi_range(g) + to_ansi_range(b)

\* A call rgb_to_ansi(r, g, b) returns.
DoRgbToAnsi ==
    /\ call.fn = "rgb_to_ansi"
    /\ result = NoResult
    /\ result' = [fn |-> "rgb_to_ansi", ansi |-> rgb_to_ansi(call.r, call.g, call.b)]
    /\ UNCHANGED <<srvVars, pc, connVars, playVars, sendVars, timeVars, pty_req, call, cin, tearVars>>

\* The frames studied are gray: a pixel is <<b, g, r>> with b = g = r one of
\* black, mid-gray and white.
PixelLevels == {0, MidGray, MaxBright}
Pixel(v) == <<v, v, v>>

\* The pixels (r, g, b, grayscale) of the frames studied for which the float sum
\* of rgb_to_brightness lies under its exact value: in IEEE double arithmetic
\* 0.2126*255.0 + 0.7152*255.0 + 0.0722*255.0 is 254.99999999999997; the other
\* sums (levels 0 and 128, and 0.267*255.0 + 0.642*255.0 + 0.091*255.0) are exact.
RoundedDown == {<<MaxBright, MaxBright, MaxBright, TRUE>>}

\* rgb_to_brightness: 0.2126*r + 0.7152*g + 0.0722*b if grayscale,
\* else 0.267*r + 0.642*g + 0.091*b
rgb_to_brightness(r, g, b, grayscale) ==
    Float(IF grayscale THEN 2126 * r + 7152 * g + 722 * b
                       ELSE 2670 * r + 6420 * g + 910 * b,
          <<r, g, b, grayscale>> \in RoundedDown)

\* increase_saturation for a gray r = g = b: rgb_to_hsv gives h = 0, s = 0,
\* v = r/255; s becomes 0.3 and v becomes min(v + 0.1, 1.0); hsv_to_rgb(0, s, v)
\* is (v, v*(1-s), v*(1-s)).  The result is given as rgb_to_ansi takes it, cut to
\* whole numbers; it is counted in tenths before that.
increase_saturation(r, g, b) ==
    LET r2 == Min(10 * r + MaxBright, 10 * MaxBright)
    IN  <<r2 \div 10, (7 * r2) \div 100, (7 * r2) \div 100>>

\* no color: the text of a cell that is not wrapped by colorize
NoColor == -1
\* char * 2, colorized or not
Cell(char, ansi) == [char |-> char, n |-> 2, ansi |-> ansi]

\* pixel_to_ascii(pixel, colored, density)
pixel_to_ascii(pixel, colored, density) ==
    LET r == pixel[3]
        g == pixel[2]
        b == pixel[1]
    IN  IF colored
        THEN LET bright == rgb_to_brightness(r, g, b, FALSE)
                 rgb == increase_saturation(r, g, b)
             IN  Cell(brightness_to_ascii(bright, density),
                      rgb_to_ansi(rgb[1], rgb[2], rgb[3]))
        ELSE LET bright == rgb_to_brightness(r, g, b, TRUE)
             IN  Cell(brightness_to_ascii(bright, density), NoColor)

\* ------------------------------- render_strategy/cinematic_ascii_strategy.py
HUMAN_CHARS == <<"@", "#", "$", "%", "&">>

\* an array of h rows and w columns
Array(h, w, gen, on, mag, angle) ==
    [some |-> TRUE, h |-> h, w |-> w, gen |-> gen, on |-> on, mag |-> mag, angle |-> angle]

\* human_mask[y, x]: 255 where the mask is set
MaskAt(m, y, x) == IF m.on = "all" \/ (m.on = "left" /\ x = 0) THEN 255 ELSE 0

\* what an index outside an array raises
IndexError == [char |-> "IndexError", n |-> 0, ansi |-> NoColor]

\* apply_pixel_to_ascii_strategy testing the edge before the motion mask
apply_pixel_EdgeFirst(c, pixel) ==
    LET r == pixel[3]
        g == pixel[2]
        b == pixel[1]
        y == c.current_y
        x == c.current_x
        gm == c.gradient_magnitude
        bright == rgb_to_brightness(r, g, b, FALSE)
    IN  IF gm.some /\ x < gm.w /\ y < gm.h /\ gm.mag > 50
        THEN Cell("-", rgb_to_ansi(r, g, b))
        ELSE IF c.human_mask.some /\ x < c.human_mask.w /\ y < c.human_mask.h
                    /\ MaskAt(c.human_mask, y, x) > 0
        THEN Cell(HUMAN_CHARS[Min(Trunc(bright.n * 5, 256 * Scale, bright.lo), 4) + 1],
                  rgb_to_ansi(r, g, b))
        ELSE pixel_to_ascii(pixel, TRUE, 1)

\* apply_pixel_to_ascii_strategy looking into the mask without the test of its shape
apply_pixel_Unguarded(c, pixel) ==
    LET r == pixel[3]
        g == pixel[2]
        b == pixel[1]
        y == c.current_y
        x == c.current_x
        mask == c.human_mask
        gm == c.gradient_magnitude
        gd == c.gradient_direction
        outside == mask.some /\ (x >= mask.w \/ y >= mask.h)
        is_human == IF mask.some THEN MaskAt(mask, y, x) > 0 ELSE FALSE
        bright == rgb_to_brightness(r, g, b, FALSE)
        index == Min(Trunc(bright.n * Len(HUMAN_CHARS), 256 * Scale, bright.lo),
                     Len(HUMAN_CHARS) - 1)
        a == gd.angle
    IN  IF outside
        THEN IndexError
        ELSE IF is_human
        THEN Cell(HUMAN_CHARS[index + 1], rgb_to_ansi(r, g, b))
        ELSE IF gm.some /\ x < gm.w /\ y < gm.h /\ gm.mag > 50 /\ gd.some /\ x < gd.w
        THEN IF y >= gd.h
             THEN IndexError
             ELSE IF (-225 <= a /\ a < 225) \/ (1575 <= a /\ a <= 1800)
                         \/ (-1800 <= a /\ a < -1575)
             THEN Cell("-", rgb_to_ansi(r, g, b))
             ELSE IF (675 <= a /\ a < 1125) \/ (-1125 <= a /\ a < -675)
             THEN Cell("|", rgb_to_ansi(r, g, b))
             ELSE pixel_to_ascii(pixel, TRUE, 1)
        ELSE pixel_to_ascii(pixel, TRUE, 1)

\* apply_pixel_to_ascii_strategy(pixel) on the instance c, for the pixel at
\* (c.current_y, c.current_x).  Magnitudes are counted in hundredths and angles in
\* tenths of a degree.
apply_pixel_to_ascii_strategy(c, pixel) ==
    LET r == pixel[3]
        g == pixel[2]
        b == pixel[1]
        y == c.current_y
        x == c.current_x
        mask == c.human_mask
        gm == c.gradient_magnitude
        gd == c.gradient_direction
        is_human == IF mask.some /\ x < mask.w /\ y < mask.h
                    THEN MaskAt(mask, y, x) > 0
                    ELSE FALSE
        bright == rgb_to_brightness(r, g, b, FALSE)
        index == Min(Trunc(bright.n * Len(HUMAN_CHARS), 256 * Scale, bright.lo),
                     Len(HUMAN_CHARS) - 1)
        a == gd.angle
    IN  IF is_human
        THEN Cell(HUMAN_CHARS[index + 1], rgb_to_ansi(r, g, b))
        ELSE IF gm.some /\ x < gm.w /\ y < gm.h /\ gm.mag > 50 /\ gd.some /\ x < gd.w
        THEN IF y >= gd.h
             THEN IndexError
             ELSE IF (-225 <= a /\ a < 225) \/ (1575 <= a /\ a <= 1800)
                         \/ (-1800 <= a /\ a < -1575)
             THEN Cell("-", rgb_to_ansi(r, g, b))
             ELSE IF (675 <= a /\ a < 1125) \/ (-1125 <= a /\ a < -675)
             THEN Cell("|", rgb_to_ansi(r, g, b))
             ELSE pixel_to_ascii(pixel, TRUE, 1)
        ELSE pixel_to_ascii(pixel, TRUE, 1)

\* the arrays apply_pixel_to_ascii_strategy indexes at (current_y, current_x) on
\* the instance c
reads(c) ==
    LET y == c.current_y
        x == c.current_x
        mask == c.human_mask
        gm == c.gradient_magnitude
        gd == c.gradient_direction
        is_human == mask.some /\ x < mask.w /\ y < mask.h /\ MaskAt(mask, y, x) > 0
        edge == ~is_human /\ gm.some /\ x < gm.w /\ y < gm.h
    IN  (IF mask.some /\ x < mask.w /\ y < mask.h THEN {"human_mask"} ELSE {})
            \cup (IF edge THEN {"gradient_magnitude"} ELSE {})
            \cup (IF edge /\ gm.mag > 50 /\ gd.some /\ x < gd.w
                  THEN {"gradient_direction"} ELSE {})

\* self.max_frames
max_frames == 3

\* what the motion detection of a resize_frame call did: it is skipped on odd
\* frames and before a gray frame is stored; calcOpticalFlowFarneback raises when
\* the two gray frames differ in size, and (raises) whenever the library fails
Flow(c, h, w, raises) ==
    IF (c.frame_count + 1) % 2 = 0 /\ c.prev_gray.some
    THEN IF raises \/ c.prev_gray.h # h \/ c.prev_gray.w # w THEN "raised" ELSE "computed"
    ELSE "skipped"

\* resize_frame popping the newest frame of a full history, not the oldest
resize_frame_EvictsNewest(c, h, w, raises, on, mag, angle) ==
    LET n == c.frame_count + 1
        gray == Array(h, w, n, "none", 0, 0)
        flow == Flow(c, h, w, raises)
    IN  [c EXCEPT
            !.frame_count = n,
            !.prev_frames = IF Len(@) + 1 > max_frames THEN @ ELSE Append(@, gray),
            !.human_mask = IF flow = "computed" THEN Array(h, w, n, on, 0, 0) ELSE @,
            !.prev_motion = IF flow = "computed" THEN Array(h, w, n, "none", 0, 0) ELSE @,
            !.prev_gray = gray,
            !.gradient_direction = Array(h, w, n, "none", 0, angle),
            !.gradient_magnitude = Array(h, w, n, "none", mag, 0)]

\* resize_frame storing an empty mask before the optical flow is computed
resize_frame_ClearsMask(c, h, w, raises, on, mag, angle) ==
    LET n == c.frame_count + 1
        gray == Array(h, w, n, "none", 0, 0)
        frames == Append(c.prev_frames, gray)
    IN  [c EXCEPT
            !.frame_count = n,
            !.prev_frames = IF Len(frames) > max_frames THEN Tail(frames) ELSE frames,
            !.human_mask = IF Flow(c, h, w, raises) = "computed"
                           THEN Array(h, w, n, on, 0, 0)
                           ELSE IF Flow(c, h, w, raises) = "raised" THEN None ELSE @,
            !.prev_motion = IF Flow(c, h, w, raises) = "computed"
                            THEN Array(h, w, n, "none", 0, 0) ELSE @,
            !.prev_gray = gray,
            !.gradient_direction = Array(h, w, n, "none", 0, angle),
            !.gradient_magnitude = Array(h, w, n, "none", mag, 0)]

\* resize_frame(frame, dimensions) on the instance c.  The parent's resize gives a
\* frame of h rows and w columns; raises tells whether the optical flow fails, on
\* is the mask it gives otherwise, mag and angle are the gradient the Sobel filters
\* find.  The result is the instance after the call.
resize_frame(c, h, w, raises, on, mag, angle) ==
    LET n == c.frame_count + 1
        gray == Array(h, w, n, "none", 0, 0)
        frames == Append(c.prev_frames, gray)
        flow == Flow(c, h, w, raises)
    IN  [c EXCEPT
            !.frame_count = n,
            !.prev_frames = IF Len(frames) > max_frames THEN Tail(frames) ELSE frames,
            !.human_mask = IF flow = "computed" THEN Array(h, w, n, on, 0, 0) ELSE @,
            !.prev_motion = IF flow = "computed" THEN Array(h, w, n, "none", 0, 0) ELSE @,
            !.prev_gray = gray,
            !.gradient_direction = Array(h, w, n, "none", 0, angle),
            !.gradient_magnitude = Array(h, w, n, "none", mag, 0)]

\* A call resize_frame(frame, dimensions) returns the resized frame, of h rows and
\* w columns of pixels of the level v.
DoResizeFrame(h, w, v, raises, on, mag, angle) ==
    /\ call.fn \in {"none", "resize_frame", "apply_pixel_to_ascii_strategy"}
    /\ cin.frame_count < MaxCalls
    /\ call' = [fn |-> "resize_frame", h |-> h, w |-> w]
    /\ cin' = resize_frame(cin, h, w, raises, on, mag, angle)
    /\ result' = [fn |-> "resize_frame", frame |-> [h |-> h, w |-> w, v |-> v],
                  flow |-> Flow(cin, h, w, raises)]
    /\ UNCHANGED <<srvVars, pc, connVars, playVars, sendVars, timeVars, pty_req, tearVars>>

\* The compositor's loops give the pixel at row y and column x of the frame that
\* resize_frame returned to apply_pixel_to_ascii_strategy: for j in range(h-1), for
\* i in range(printing_width), with printing_width at most w.
DoApplyPixel(y, x) ==
    /\ call.fn \in {"resize_frame", "apply_pixel_to_ascii_strategy"}
    /\ y \in 0..(result.frame.h - 2)
    /\ x \in 0..(result.frame.w - 1)
    /\ call' = [fn |-> "apply_pixel_to_ascii_strategy", y |-> y, x |-> x]
    /\ cin' = [cin EXCEPT !.current_y = y, !.current_x = x]
    /\ result' = [fn |-> "apply_pixel_to_ascii_strategy", frame |-> result.frame,
                  flow |-> result.flow,
                  reads |-> reads(cin'),
                  cell |-> apply_pixel_to_ascii_strategy(cin', Pixel(result.frame.v))]
    /\ UNCHANGED <<srvVars, pc, connVars, playVars, sendVars, timeVars, pty_req, tearVars>>

\* The plain-ASCII strategy ("just-ascii"): the grayscale brightness looked up in
\* the first density table, the character doubled, no color.
AsciiBW_apply_pixel_to_ascii_strategy(pixel) == pixel_to_ascii(pixel, FALSE, 0)

\* ------------------------------- render_strategy/adaptive_ascii_strategy.py
\* rgb_enhanced of apply_pixel_to_ascii_strategy for a gray r = g = b, in tenths:
\* colorsys.rgb_to_hsv is given the channels as they are (0..255), so h = 0, s = 0
\* and v = r; s * 1.4 is 0 and min(v * 1.1, 1.0) is 1.0 for every r above 0;
\* hsv_to_rgb(0, 0, v) is (v, v, v).
rgb_enhanced(pixel) ==
    LET v == Min(11 * pixel[3], 10)
    IN  <<v, v, v>>

\* AdaptiveAsciiStrategy.apply_pixel_to_ascii_strategy(pixel): rgb_enhanced and
\* bright are computed and left unused; the value returned is
\* ipe.pixel_to_ascii(pixel, density=3).
Adaptive_apply_pixel_to_ascii_strategy(pixel) == pixel_to_ascii(pixel, TRUE, 3)

\* A call apply_pixel_to_ascii_strategy(pixel) of the adaptive strategy returns.
DoAdaptivePixel ==
    /\ call.fn = "adaptive.apply_pixel_to_ascii_strategy"
    /\ result = NoResult
    /\ result' = [fn |-> "adaptive.apply_pixel_to_ascii_strategy",
                  rgb_enhanced |-> rgb_enhanced(call.pixel),
                  cell |-> Adaptive_apply_pixel_to_ascii_strategy(call.pixel)]
    /\ UNCHANGED <<srvVars, pc, connVars, playVars, sendVars, timeVars, pty_req, call, cin,
                   tearVars>>

\* convert_frame_pixels_to_ascii with one cell per source column, whatever the
\* terminal's columns
printing_width_Unclamped(cols, w) == w

\* printing_width = int(min(int(cols), (w*2))/2)
printing_width(cols, w) == Min(cols, w * 2) \div 2

\* pad = max(int(cols) - printing_width*2, 0)
pad(cols, w) == Max(cols - printing_width(cols, w) * 2, 0)

\* what ends a row: "\n" if new_line_chars else " " * pad
RowEnd(cols, w, new_line_chars) ==
    IF new_line_chars THEN [s |-> "\n", n |-> 1] ELSE [s |-> " ", n |-> pad(cols, w)]

\* convert_frame_pixels_to_ascii looping over every row of the frame, for j in
\* range(h)
convert_frame_pixels_AllRows(st, c, frame, cols, new_line_chars) ==
    [rows |-> [j \in 1..frame.h |->
                 [cells |-> [i \in 1..printing_width(cols, frame.w) |->
                               IF st = "cinematic"
                               THEN apply_pixel_to_ascii_strategy(
                                        [c EXCEPT !.current_y = j - 1, !.current_x = i - 1],
                                        Pixel(frame.v))
                               ELSE AsciiBW_apply_pixel_to_ascii_strategy(Pixel(frame.v))],
                  end |-> RowEnd(cols, frame.w, new_line_chars)]],
     end |-> "\r\n"]

\* convert_frame_pixels_to_ascii(frame, dimensions, new_line_chars) of the strategy
\* st, for a frame of h rows and w columns whose pixels all have the level v: the
\* text is given row by row, for j in range(h-1) and i in range(printing_width),
\* and ends with "\r\n".  c is the cinematic instance.
convert_frame_pixels_to_ascii(st, c, frame, cols, new_line_chars) ==
    [rows |-> [j \in 1..(frame.h - 1) |->
                 [cells |-> [i \in 1..printing_width(cols, frame.w) |->
                               IF st = "cinematic"
                               THEN apply_pixel_to_ascii_strategy(
                                        [c EXCEPT !.current_y = j - 1, !.current_x = i - 1],
                                        Pixel(frame.v))
                               ELSE AsciiBW_apply_pixel_to_ascii_strategy(Pixel(frame.v))],
                  end |-> RowEnd(cols, frame.w, new_line_chars)]],
     end |-> "\r\n"]

\* A call convert_frame_pixels_to_ascii(frame, (cols, _), new_line_chars) returns;
\* the cinematic instance keeps the position of the last pixel it was given.
DoConvertFrame ==
    /\ call.fn = "convert_frame_pixels_to_ascii"
    /\ result = NoResult
    /\ result' = [fn |-> "convert_frame_pixels_to_ascii",
                  printing_width |-> printing_width(call.cols, call.frame.w),
                  pad |-> pad(call.cols, call.frame.w),
                  msg |-> convert_frame_pixels_to_ascii(call.strategy, cin, call.frame,
                                                        call.cols, call.new_line_chars)]
    /\ cin' = IF call.strategy = "cinematic" /\ call.frame.h > 1
              THEN [cin EXCEPT
                      !.current_y = call.frame.h - 2,
                      !.current_x = IF printing_width(call.cols, call.frame.w) > 0
                                    THEN printing_width(call.cols, call.frame.w) - 1
                                    ELSE @]
              ELSE cin
    /\ UNCHANGED <<srvVars, pc, connVars, playVars, sendVars, timeVars, pty_req, call, tearVars>>

\* ------------------------------------------------------------ specifications
IdleSess ==
    /\ pc = [s \in Sess |-> "idle"]
    /\ peer = [s \in Sess |-> FALSE]
    /\ transport = [s \in Sess |-> "none"]
    /\ chan = [s \in Sess |-> "none"]
    /\ event = [s \in Sess |-> FALSE]
    /\ terminal_width = [s \in Sess |-> DefaultWidth]
    /\ terminal_height = [s \in Sess |-> DefaultHeight]
    /\ render_strategy = [s \in Sess |-> 0]
    /\ cap = [s \in Sess |-> "none"]
    /\ pos = [s \in Sess |-> 0]
    /\ frame_count = [s \in Sess |-> 0]
    /\ output = [s \in Sess |-> NoOutput]
    /\ snd = [s \in Sess |-> NoSend]
    /\ ret = [s \in Sess |-> TRUE]
    /\ log = [s \in Sess |-> <<>>]
    /\ now = [s \in Sess |-> 0]
    /\ t0 = [s \in Sess |-> 0]
    /\ time_delta = [s \in Sess |-> 0]
    /\ elapsed = [s \in Sess |-> 0]
    /\ sleep_time = [s \in Sess |-> 0]

Idle == IdleSess /\ NoAux

\* run_server is called with a strategy; nothing is connected yet.
Init ==
    /\ strategy \in StrategyNames
    /\ srv = "start"
    /\ sock = "none"
    /\ Idle

run_server ==
    \/ SrvNoFile
    \/ SrvBind
    \/ SrvBindFail
    \/ SrvStop
    \/ \E s \in Sess : SrvAccept(s)

Client(s) ==
    \/ Disconnect(s)
    \/ ShellRequest(s)

safe_send(s) ==
    \/ SendChunk(s)
    \/ SendFail(s)
    \/ SendDone(s)

\* D is the set of durations a read+render may take and F the set of frame rates
\* the decoder may report.
stream_to_client(s, D, F) ==
    \/ safe_send(s)
    \/ \E fps \in F : StOpen(s, fps)
    \/ StOpenFail(s)
    \/ \E d \in D : StFrame(s, d)
    \/ StRenderRaise(s)
    \/ StReadEnd(s)
    \/ StPace(s)
    \/ StRelease(s)
    \/ StExcept(s)
    \/ StFinally(s)

\* The connection's thread.
handle_client(s, D, F) ==
    \/ HcStart(s)
    \/ HcStartFail(s)
    \/ HcAccept(s)
    \/ HcNoChannel(s)
    \/ HcNoShell(s)
    \/ HcShell(s)
    \/ HcBanner(s)
    \/ HcFinally(s)
    \/ stream_to_client(s, D, F)

\* The server with its connections; the durations are left out (every read+render
\* takes CostFast, the decoder reports no frame rate).
Next ==
    \/ run_server
    \/ \E s \in Sess : Client(s) \/ handle_client(s, {CostFast}, {0})

Spec == Init /\ [][Next]_vars

\* One connection, with the durations: a read+render is quick or slow and the
\* decoder reports no frame rate, 25 or 30 frames a second.
FpsValues == {0, 25, 30}

PaceNext ==
    \/ SrvBind
    \/ SrvAccept(1)
    \/ Client(1)
    \/ handle_client(1, {CostFast, CostSlow}, FpsValues)

PaceSpec == Init /\ [][PaceNext]_vars

\* The same with the connection's thread scheduled fairly: the thread is a daemon
\* thread of its own (run_server starts one per accepted connection), every one of
\* its waits has a timeout (accept(20), event.wait(10), the sleeps) and a send
\* returns or raises, so a step it can take is taken in the end.
FairPaceSpec ==
    /\ PaceSpec
    /\ WF_vars(handle_client(1, {CostFast, CostSlow}, FpsValues))

\* One connection whose client sends PTY requests before and during the stream; a
\* request reports a width of 0, NarrowWidth or WideWidth and a height of 0 or
\* TallHeight.
PtyWidths == {0, NarrowWidth, WideWidth}
PtyHeights == {0, TallHeight}

PtyNext ==
    \/ SrvBind
    \/ SrvAccept(1)
    \/ Client(1)
    \/ \E width \in PtyWidths, height \in PtyHeights : PtyRequest(1, width, height)
    \/ handle_client(1, {CostFast}, {0})

PtySpec == Init /\ [][PtyNext]_vars

\* One connection with the transport thread and the connection's thread taken
\* statement by statement where they share the terminal size: the client sends PTY
\* requests before and during the stream, of NarrowWidth columns with no height
\* or of WideWidth columns and TallHeight rows.
PtyPairs == {<<NarrowWidth, 0>>, <<WideWidth, TallHeight>>}

RaceNext ==
    \/ SrvBind
    \/ SrvAccept(1)
    \/ Client(1)
    \/ \E p \in PtyPairs : PtyStoreWidth(1, p[1], p[2])
    \/ PtyStoreHeight(1)
    \/ HcStart(1)
    \/ HcStartFail(1)
    \/ HcAccept(1)
    \/ HcNoChannel(1)
    \/ HcNoShell(1)
    \/ HcShell(1)
    \/ HcBanner(1)
    \/ HcFinally(1)
    \/ safe_send(1)
    \/ StOpen(1, 0)
    \/ StOpenFail(1)
    \/ StReadCols(1)
    \/ StRenderRows(1, CostFast)
    \/ StRenderRaise(1)
    \/ StReadEnd(1)
    \/ StPace(1)
    \/ StRelease(1)
    \/ StExcept(1)
    \/ StFinally(1)

RaceSpec == Init /\ [][RaceNext]_vars

\* One connection whose client negotiates its terminal as SSH clients do, with one
\* PTY request ahead of its shell request: a terminal of SmallWidth or NarrowWidth
\* columns and of ShortHeight or TallHeight rows, which stays as it is for the
\* whole stream.
FitWidths == {SmallWidth, NarrowWidth}
FitHeights == {ShortHeight, TallHeight}

FitNext ==
    \/ SrvBind
    \/ SrvAccept(1)
    \/ Client(1)
    \/ \E width \in FitWidths, height \in FitHeights :
          /\ pc[1] = "hc_wait" /\ ~event[1] /\ pty_req[1] = NoPty
          /\ PtyRequest(1, width, height)
    \/ handle_client(1, {CostFast}, {0})

FitSpec == Init /\ [][FitNext]_vars

\* The program from its entry point: main is started with any --strategy argument
\* ("bogus" stands for every name outside the choices) and a path that may or may
\* not exist, and serves one connection.
MainInit ==
    /\ strategy \in choices \cup {"bogus"}
    /\ srv = "main"
    /\ sock = "none"
    /\ Idle

MainNext ==
    \/ MainParse
    \/ MainUsage
    \/ SrvNoFile
    \/ SrvBind
    \/ SrvBindFail
    \/ SrvStop
    \/ SrvAccept(1)
    \/ Client(1)
    \/ handle_client(1, {CostFast}, {0})

MainSpec == MainInit /\ [][MainNext]_vars

\* No server: the state in which a rendering function is studied on its own.
NoServer ==
    /\ strategy = "none"
    /\ srv = "start"
    /\ sock = "none"
    /\ IdleSess
    /\ NoTear
    /\ pty_req = [s \in Sess |-> NoPty]

\* brightness_to_ascii on its own: called with any whole brightness 0..255 and any
\* of the density tables.
GlyphInit ==
    /\ NoServer
    /\ cin = NoCin
    /\ result = NoResult
    /\ \E v \in 0..MaxBright, density \in Densities :
          call = [fn |-> "brightness_to_ascii", i |-> Exact(v), density |-> density]

GlyphNext == DoBrightnessToAscii

GlyphSpec == GlyphInit /\ [][GlyphNext]_vars

\* rgb_to_ansi on its own: called with any gray r = g = b in 0..255, and with any
\* triple of sampled channel values: every ChanStep-th value, the values next to
\* the limits of the gray branch and the values where round(a / 51.0) steps.
ChannelValues ==
    {a \in 0..MaxBright : a % ChanStep = 0}
        \cup {7, 8, 248, 249, MaxBright}
        \cup {a \in 1..MaxBright : to_ansi_range(a) # to_ansi_range(a - 1)}
        \cup {a \in 0..(MaxBright - 1) : to_ansi_range(a) # to_ansi_range(a + 1)}

AnsiInit ==
    /\ NoServer
    /\ cin = NoCin
    /\ result = NoResult
    /\ \/ \E v \in 0..MaxBright : call = [fn |-> "rgb_to_ansi", r |-> v, g |-> v, b |-> v]
       \/ \E r \in ChannelValues, g \in ChannelValues, b \in ChannelValues :
              call = [fn |-> "rgb_to_ansi", r |-> r, g |-> g, b |-> b]

AnsiNext == DoRgbToAnsi

AnsiSpec == AnsiInit /\ [][AnsiNext]_vars

\* The compositor on its own: a new cinematic instance or the plain-ASCII strategy
\* is given a gray frame of 1..MaxFrameH rows and of 1..MaxFrameW, 40 or 60 columns,
\* for a terminal of 1..MaxTermCols or 80 columns, in either line-ending mode.
FrameWidths == 1..MaxFrameW \cup {40, 60}
TermCols == 1..MaxTermCols \cup {80}

CompInit ==
    /\ NoServer
    /\ cin = NoCin
    /\ result = NoResult
    /\ \E st \in {"cinematic", "just-ascii"}, h \in 1..MaxFrameH, w \in FrameWidths,
          v \in PixelLevels, cols \in TermCols, nl \in BOOLEAN :
          call = [fn |-> "convert_frame_pixels_to_ascii", strategy |-> st,
                  frame |-> [h |-> h, w |-> w, v |-> v], cols |-> cols,
                  new_line_chars |-> nl]

CompNext == DoConvertFrame

CompSpec == CompInit /\ [][CompNext]_vars

\* One cinematic instance over a stream whose target size changes: each of up to
\* MaxCalls frames is resized to 2 or MaxFrameH rows and 2 or MaxFrameH columns,
\* the optical flow fails or not, the mask it gives is empty or full, the gradient
\* is weak or strong, and pixels of the resized frame are classified.
FrameSizes == {2, MaxFrameH}

CinInit ==
    /\ NoServer
    /\ cin = NoCin
    /\ call = NoCall
    /\ result = NoResult

CinNext ==
    \/ \E h \in FrameSizes, w \in FrameSizes, raises \in BOOLEAN, on \in {"none", "all"},
          mag \in {WeakEdge, StrongEdge} :
          DoResizeFrame(h, w, MidGray, raises, on, mag, 0)
    \/ \E y \in 0..(MaxFrameH - 1), x \in 0..(MaxFrameH - 1) : DoApplyPixel(y, x)

CinSpec == CinInit /\ [][CinNext]_vars

\* apply_pixel_to_ascii_strategy on its own: the instance has just resized its third
\* frame to MaxFrameH rows and columns; its mask is None (the flow of the second
\* frame failed) or the empty, full or left-column mask of any size computed for
\* the second frame; the gradient is weak, at the threshold or strong, at any of
\* the angles around the limits of the octants; the pixels are black, mid-gray or
\* white.
Magnitudes == {WeakEdge, 50, StrongEdge}
Angles ==
    {-1800, -1576, -1575, -1126, -1125, -676, -675, -226, -225, 0,
     224, 225, 450, 674, 675, 1124, 1125, 1574, 1575, 1800}

ClassifyInit ==
    /\ NoServer
    /\ call = [fn |-> "resize_frame", h |-> MaxFrameH, w |-> MaxFrameH]
    /\ \E v \in PixelLevels :
          result = [fn |-> "resize_frame", frame |-> [h |-> MaxFrameH, w |-> MaxFrameH, v |-> v],
                    flow |-> "skipped"]
    /\ \E mask \in {None} \cup {Array(h, w, 2, on, 0, 0) :
                                    h \in FrameSizes, w \in FrameSizes,
                                    on \in {"none", "all", "left"}},
          mag \in Magnitudes, angle \in Angles :
          cin = [frame_count |-> 3,
                 prev_frames |-> [n \in 1..3 |->
                                    Array(IF n = 3 \/ ~mask.some THEN MaxFrameH ELSE mask.h,
                                          IF n = 3 \/ ~mask.some THEN MaxFrameH ELSE mask.w,
                                          n, "none", 0, 0)],
                 prev_gray |-> Array(MaxFrameH, MaxFrameH, 3, "none", 0, 0),
                 prev_motion |-> IF mask.some THEN [mask EXCEPT !.on = "none"] ELSE None,
                 human_mask |-> mask,
                 gradient_direction |-> Array(MaxFrameH, MaxFrameH, 3, "none", 0, angle),
                 gradient_magnitude |-> Array(MaxFrameH, MaxFrameH, 3, "none", mag, 0),
                 current_y |-> -1, current_x |-> -1]

ClassifyNext == \E y \in 0..(MaxFrameH - 1), x \in 0..(MaxFrameH - 1) : DoApplyPixel(y, x)

ClassifySpec == ClassifyInit /\ [][ClassifyNext]_vars

\* The adaptive strategy's pixel function on its own: called with any gray pixel
\* b = g = r of 0..255.
AdaptInit ==
    /\ NoServer
    /\ cin = NoCin
    /\ result = NoResult
    /\ \E v \in 0..MaxBright :
          call = [fn |-> "adaptive.apply_pixel_to_ascii_strategy", pixel |-> Pixel(v)]

AdaptNext == DoAdaptivePixel

AdaptSpec == AdaptInit /\ [][AdaptNext]_vars

\* safe_send on its own: connection 1 is inside safe_send(data) for a payload of any
\* length up to MaxPayload.
SendInit ==
    /\ strategy = "none"
    /\ srv = "accepting"
    /\ sock = "listening"
    /\ pc = [s \in Sess |-> IF s = 1 THEN "send" ELSE "idle"]
    /\ peer = [s \in Sess |-> s = 1]
    /\ transport = [s \in Sess |-> IF s = 1 THEN "open" ELSE "none"]
    /\ chan = [s \in Sess |-> IF s = 1 THEN "open" ELSE "none"]
    /\ event = [s \in Sess |-> s = 1]
    /\ terminal_width = [s \in Sess |-> DefaultWidth]
    /\ terminal_height = [s \in Sess |-> DefaultHeight]
    /\ render_strategy = [s \in Sess |-> 0]
    /\ cap = [s \in Sess |-> "none"]
    /\ pos = [s \in Sess |-> 0]
    /\ frame_count = [s \in Sess |-> 0]
    /\ output = [s \in Sess |-> NoOutput]
    /\ \E n \in 0..MaxPayload :
          snd = [s \in Sess |-> IF s = 1 THEN [k |-> "data", f |-> 0, n |-> n, i |-> 0]
                                          ELSE NoSend]
    /\ ret = [s \in Sess |-> TRUE]
    /\ log = [s \in Sess |-> <<>>]
    /\ now = [s \in Sess |-> 0]
    /\ t0 = [s \in Sess |-> 0]
    /\ time_delta = [s \in Sess |-> 0]
    /\ elapsed = [s \in Sess |-> 0]
    /\ sleep_time = [s \in Sess |-> 0]
    /\ NoAux

SendNext ==
    \/ Disconnect(1)
    \/ safe_send(1)

SendSpec == SendInit /\ [][SendNext]_vars

\* ------------------------------------------------------------- what was sent
Idx(s) == DOMAIN log[s]
AllOk(s) == \A i \in Idx(s) : log[s][i].ok
\* The frames whose last chunk was written, in the order of writing.
Last(e) == e.k = "frame" /\ e.ok /\ e.b = e.n
SentFrames(s) ==
    LET F[i \in 0..Len(log[s])] ==
            IF i = 0 THEN <<>>
            ELSE IF Last(log[s][i]) THEN Append(F[i - 1], log[s][i].f) ELSE F[i - 1]
    IN F[Len(log[s])]
\* The loop is between the read of frame pos[s] and the end of its send.
InFlight(s) == pc[s] = "send" /\ snd[s].k \in {"debug", "home", "frame"}
\* The except branch of stream_to_client was taken.
Raised(s) ==
    \/ pc[s] = "st_except"
    \/ snd[s].k = "error_msg"
    \/ \E i \in Idx(s) : log[s][i].k = "error_msg"
Count(s, P(_)) == Cardinality({i \in Idx(s) : P(log[s][i])})

\* C1: two sessions that are active at the same time with the cinematic strategy
\* hold two different strategy instances.
C1_OwnInstance ==
    \A s, t \in Sess :
        (/\ s # t
         /\ strategy = "cinematic"
         /\ render_strategy[s] # 0 /\ pc[s] # "done"
         /\ render_strategy[t] # 0 /\ pc[t] # "done")
        => render_strategy[s] # render_strategy[t]

C3_NothingAfterFrameFailure ==
    \A s \in Sess : \A i \in Idx(s) :
        (/\ log[s][i].k = "frame"
         /\ ~log[s][i].ok
         /\ \A j \in 1..(i - 1) : log[s][j].ok)
        => i = Len(log[s])

\* C4: a session whose channel has been closed holds no open decoder handle.
C4_HandleReleased ==
    \A s \in Sess : chan[s] = "closed" => cap[s] # "open"

\* C5: after a chunk write has failed, in whatever phase, the session sends nothing
\* more.
C5_NothingAfterAnyFailure ==
    \A s \in Sess : \A i \in Idx(s) : ~log[s][i].ok => i = Len(log[s])

\* Everything a connection's thread owns.
SessState(s) ==
    <<pc[s], peer[s], transport[s], chan[s], event[s], terminal_width[s],
      terminal_height[s], render_strategy[s], cap[s], pos[s], frame_count[s], output[s],
      snd[s], ret[s], log[s], now[s], t0[s], time_delta[s], elapsed[s], sleep_time[s]>>
\* The session has met a failure: its client is gone, a send raised, the decoder
\* did not open, or the rendering raised.
Failed(s) ==
    \/ pc[s] \notin {"idle", "halt"} /\ ~peer[s]
    \/ ~AllOk(s)
    \/ cap[s] = "unopened"
    \/ Raised(s)
Running(s) == pc[s] \notin {"idle", "done", "halt"}
Step(s) == handle_client(s, {CostFast}, {0})

\* C6: a step in which a session fails, or that tears a failed session down, changes
\* nothing of the accept loop and nothing of any other session; the accept loop
\* goes on accepting while a session has failed, and every other running session
\* can take its next step.
C6_Isolation ==
    /\ [][\A s \in Sess :
            ((Failed(s)' /\ SessState(s)' # SessState(s))
             => (/\ srv' = srv /\ sock' = sock /\ strategy' = strategy
                 /\ \A t \in Sess \ {s} : SessState(t)' = SessState(t)))]_vars
    /\ [](\A s \in Sess : Failed(s) =>
            /\ (srv = "accepting" /\ \E t \in Sess : pc[t] = "idle")
                   => \E t \in Sess : ENABLED SrvAccept(t)
            /\ \A t \in Sess \ {s} : Running(t) => ENABLED Step(t))

\* C6 witness: session 1 failed and is torn down, the accept loop is accepting and
\* session 2 is in the middle of a frame with its client connected.
C6_Witness ==
    /\ ~AllOk(1) /\ pc[1] = "done" /\ transport[1] = "closed"
    /\ srv = "accepting" /\ sock = "listening"
    /\ pc[2] = "send" /\ snd[2].k = "frame" /\ snd[2].i > 0 /\ peer[2] /\ AllOk(2)

\* The channel.send calls made for the frame the loop paced last.
FrameSends(s) == Count(s, LAMBDA e : e.f = frame_count[s] /\ e.k \in {"debug", "home", "frame"})

\* C7: after each frame the sleep is max(0, interval - elapsed), never negative,
\* where elapsed runs from the start of the frame's read to the end of its send (the
\* read+render, every chunk's delay and the first frame's pause); at 30 fps a frame
\* of 10 ms is followed by a sleep of 23.333 ms and a frame of 40 ms by no sleep, the
\* frame having been sent.
C7_Pacing ==
    \A s \in Sess :
        frame_count[s] > 0 =>
            /\ sleep_time[s] >= 0
            /\ sleep_time[s] >= time_delta[s] - elapsed[s]
            /\ sleep_time[s] \in {0, time_delta[s] - elapsed[s]}
            /\ elapsed[s] - ChunkDelay * FrameSends(s)
                   - (IF frame_count[s] = 1 THEN DebugDelay ELSE 0) \in {CostFast, CostSlow}
            /\ (time_delta[s] = 33333 /\ elapsed[s] = 10000) => sleep_time[s] = 23333
            /\ (time_delta[s] = 33333 /\ elapsed[s] = 40000) => sleep_time[s] = 0
            /\ frame_count[s] <= Len(SentFrames(s))
            /\ pc[s] = "st_loop" => now[s] = t0[s] + elapsed[s] + sleep_time[s]

\* C7 witness: at 30 fps, a frame that took 40 ms was sent and followed by no sleep.
C7_Witness ==
    \E s \in Sess :
        /\ frame_count[s] = 2 /\ pc[s] = "st_loop"
        /\ time_delta[s] = 33333 /\ elapsed[s] = 40000 /\ sleep_time[s] = 0
        /\ SentFrames(s) = <<1, 2>>

\* The phase of a session: 0 Idle (no shell request yet), 1 Priming (welcome text,
\* preamble, decoder being opened, screen clear), 2 Playing (the loop), 3 Draining
\* (the loop is left: handle released, last message), 4 Closed.
Phase(s) ==
    CASE chan[s] = "closed" \/ pc[s] \in {"hc_finally", "done"} -> 4
      [] pc[s] \in {"idle", "hc_start", "hc_accept", "hc_wait"} -> 0
      [] pc[s] \in {"hc_banner", "st_open"} -> 1
      [] pc[s] = "send" /\ snd[s].k \in {"preparing", "error_open", "clear", "starting"} -> 1
      [] pc[s] \in {"st_loop", "st_pace"} -> 2
      [] pc[s] = "send" /\ snd[s].k \in {"debug", "home", "frame"} -> 2
      [] OTHER -> 3
KindPhase(k) ==
    CASE k \in {"banner", "preparing", "error_open", "clear", "starting"} -> 1
      [] k \in {"debug", "home", "frame"} -> 2
      [] OTHER -> 3

\* C8: a session's phase never goes backward; what is sent follows the phases (the
\* welcome text and the preamble before any frame, the last message after every
\* frame); a session that released its decoder handle after the loop has sent the
\* completion message last, before its channel was closed; and nothing is sent on
\* a closed channel.
C8_Phases ==
    /\ [][\A s \in Sess : Phase(s)' >= Phase(s)]_vars
    /\ [][\A s \in Sess : chan[s] = "closed" => log'[s] = log[s]]_vars
    /\ [](\A s \in Sess :
            /\ \A i, j \in Idx(s) : i < j => KindPhase(log[s][i].k) <= KindPhase(log[s][j].k)
            /\ \A i \in Idx(s) :
                   log[s][i].k = "frame" =>
                       /\ Count(s, LAMBDA e : e.k = "banner") = BannerLines
                       /\ Count(s, LAMBDA e : e.k = "preparing") = 1
                       /\ Count(s, LAMBDA e : e.k = "starting") = 1
            /\ (cap[s] = "released" /\ Phase(s) = 4) =>
                   (log[s] # <<>> /\ log[s][Len(log[s])].k = "complete")
            /\ Count(s, LAMBDA e : e.k = "complete") <= 1
            /\ Phase(s) < 2 => pos[s] = 0)

\* C8 witness: a session played the whole source, sent the completion message and
\* is closed.
C8_Witness ==
    \E s \in Sess :
        /\ Phase(s) = 4 /\ chan[s] = "closed" /\ cap[s] = "released"
        /\ Len(SentFrames(s)) = MaxFrames
        /\ log[s][Len(log[s])] = Entry("complete", 0, LenComplete, 0, LenComplete, TRUE)

\* ceil(n / chunk_size)
CeilDiv(n, c) == (n + c - 1) \div c
ChunkSizes(s) == [i \in Idx(s) |-> log[s][i].b - log[s][i].a]

\* C9: safe_send with no write failure emits ceil(n/4096) chunks, in payload order
\* and end to end from byte 0 to byte n, each of at most 4096 bytes and all but the
\* last of 4096; 10000 bytes give 4096, 4096 and 1808, and no byte gives no chunk.
C9_Chunks ==
    AllOk(1) =>
        /\ \A i \in Idx(1) :
               /\ log[1][i].a = (IF i = 1 THEN 0 ELSE log[1][i - 1].b)
               /\ log[1][i].b > log[1][i].a
               /\ log[1][i].b <= log[1][i].n
               /\ ChunkSizes(1)[i] <= 4096
               /\ log[1][i].b < log[1][i].n => ChunkSizes(1)[i] = 4096
        /\ (pc[1] = "send" /\ snd[1].i >= snd[1].n) =>
               /\ Len(log[1]) = CeilDiv(snd[1].n, 4096)
               /\ snd[1].n > 0 => log[1][Len(log[1])].b = snd[1].n
               /\ snd[1].n = 10000 => ChunkSizes(1) = <<4096, 4096, 1808>>
               /\ snd[1].n = 0 => log[1] = <<>>
        /\ pc[1] = "halt" =>
               /\ ret[1]
               /\ log[1] # <<>> =>
                      /\ log[1][Len(log[1])].b = log[1][1].n
                      /\ Len(log[1]) = CeilDiv(log[1][1].n, 4096)

\* C9 witness: safe_send has returned True for a payload of 10000 bytes, sent as
\* 4096, 4096 and 1808 bytes.
C9_Witness ==
    /\ pc[1] = "halt" /\ ret[1] /\ AllOk(1)
    /\ Len(log[1]) = 3 /\ log[1][1].n = 10000
    /\ ChunkSizes(1) = <<4096, 4096, 1808>>

\* C10: the screen clear is sent once, whole, and before the first frame; the
\* first chunk of every frame comes right after one cursor-home, sent whole for
\* that frame, and the later chunks of a frame right after the chunk before them;
\* a frame that was written had its cursor-home and the screen clear written.
C10_FrameBoundaries ==
    \A s \in Sess :
        /\ Count(s, LAMBDA e : e.k = "clear") <= 1
        /\ pos[s] > 0 => Count(s, LAMBDA e : e.k = "clear") = 1
        /\ \A i \in Idx(s) :
               /\ log[s][i].k = "clear" => (log[s][i].a = 0 /\ log[s][i].b = LenClear)
               /\ (log[s][i].k = "frame" /\ log[s][i].a = 0) =>
                      /\ i > 1
                      /\ log[s][i - 1].k = "home"
                      /\ log[s][i - 1].f = log[s][i].f
                      /\ log[s][i - 1].a = 0 /\ log[s][i - 1].b = LenHome
                      /\ i > 2 => log[s][i - 2].k # "home"
                      /\ \E j \in 1..(i - 1) : log[s][j].k = "clear"
                      /\ log[s][i].ok =>
                             \A j \in 1..(i - 1) :
                                 log[s][j].k \in {"home", "clear"} => log[s][j].ok
               /\ (log[s][i].k = "frame" /\ log[s][i].a > 0) =>
                      /\ log[s][i - 1].k = "frame"
                      /\ log[s][i - 1].f = log[s][i].f
                      /\ log[s][i - 1].b = log[s][i].a
        /\ Count(s, LAMBDA e : e.k = "home") <= pos[s]

\* C10 witness: two frames were written, each right after its cursor-home, after
\* one screen clear.
C10_Witness ==
    \E s \in Sess :
        /\ AllOk(s) /\ SentFrames(s) = <<1, 2>>
        /\ Count(s, LAMBDA e : e.k = "home") = 2
        /\ Count(s, LAMBDA e : e.k = "clear") = 1
        /\ \E i \in Idx(s) : log[s][i].k = "frame" /\ log[s][i].a > 0

\* ---------------------------------------------------------------------- C11
\* C11: a connection's stored terminal dimensions are always positive.  After any
\* sequence of PTY requests the stored width is the last reported width, or 80 when
\* that was not positive, and the stored height is the last reported height, or 24
\* when that was not positive, each whatever the other dimension was; a connection
\* that never had a PTY request has 80x24 and renders its frames for 80x24.
C11_Dimensions ==
    \A s \in Sess :
        /\ terminal_width[s] > 0
        /\ terminal_height[s] > 0
        /\ pty_req[s] = NoPty =>
              /\ terminal_width[s] = 80
              /\ terminal_height[s] = 24
              /\ output[s] # NoOutput =>
                    output[s].cols = Cols(80) /\ output[s].rows = Rows(24)
        /\ pty_req[s] # NoPty =>
              /\ terminal_width[s] = (IF pty_req[s][1] > 0 THEN pty_req[s][1] ELSE 80)
              /\ terminal_height[s] = (IF pty_req[s][2] > 0 THEN pty_req[s][2] ELSE 24)

\* a request that reported no width but a height, in the middle of the stream: the
\* next frame is rendered for the default width and the reported height
C11_Witness ==
    \E s \in Sess :
        /\ pty_req[s] = <<0, TallHeight>>
        /\ terminal_width[s] = 80
        /\ terminal_height[s] = TallHeight
        /\ frame_count[s] = 2
        /\ output[s].cols = Cols(80)
        /\ output[s].rows = Rows(TallHeight)

\* ---------------------------------------------------------------------- C12
\* the texts stream_to_client sends once the decoder is open
PlayKinds == {"clear", "starting", "debug", "home", "frame", "complete"}

\* C12: when the decoder cannot open the source for a session, that session reads
\* and renders no frame and sends no frame and no completion message (nothing but
\* the error text follows), it goes to the close of its channel, and its channel
\* is closed once stream_to_client has returned; none of its steps changes the
\* accept loop or another session, the accept loop can still accept and every
\* other running session can take its next step.
C12_OpenFailure ==
    /\ [](\A s \in Sess : cap[s] = "unopened" =>
            /\ \A i \in Idx(s) : log[s][i].k \notin PlayKinds
            /\ snd[s].k \notin PlayKinds
            /\ pos[s] = 0 /\ frame_count[s] = 0 /\ output[s] = NoOutput
            /\ pc[s] \in {"send", "st_finally", "hc_finally", "done"}
            /\ pc[s] = "send" => snd[s].k = "error_open"
            /\ pc[s] \in {"hc_finally", "done"} => chan[s] = "closed"
            /\ (srv = "accepting" /\ \E t \in Sess : pc[t] = "idle")
                   => \E t \in Sess : ENABLED SrvAccept(t)
            /\ \A t \in Sess \ {s} : Running(t) => ENABLED Step(t))
    /\ [][\A s \in Sess :
            ((cap[s]' = "unopened" /\ SessState(s)' # SessState(s))
             => (/\ srv' = srv /\ sock' = sock /\ strategy' = strategy
                 /\ \A t \in Sess \ {s} : SessState(t)' = SessState(t)))]_vars

\* session 1 could not open the source, has sent the error text and is closed; the
\* accept loop is accepting and session 2 is in the middle of its second frame
C12_Witness ==
    /\ cap[1] = "unopened" /\ pc[1] = "done" /\ chan[1] = "closed"
    /\ \E i \in Idx(1) : log[1][i].k = "error_open" /\ log[1][i].ok
    /\ srv = "accepting" /\ sock = "listening"
    /\ pc[2] = "send" /\ snd[2].k = "frame" /\ snd[2].f = 2 /\ peer[2] /\ AllOk(2)

\* ---------------------------------------------------------------------- C13
\* the listener was never bound and no connection was accepted or served
NothingStarted ==
    /\ sock = "none"
    /\ \A s \in Sess :
          /\ pc[s] = "idle" /\ ~peer[s] /\ transport[s] = "none" /\ chan[s] = "none"
          /\ render_strategy[s] = 0 /\ cap[s] = "none" /\ log[s] = <<>>

\* C13: when the source path does not exist, or the strategy name is not one of
\* the fixed set, the server never binds its listener, never accepts a connection
\* and never starts a session: the program has stopped with nothing started, and
\* stays so.
C13_FailFast ==
    /\ [](srv \in {"nofile", "usage"} => NothingStarted)
    /\ [](strategy \notin choices => srv \in {"main", "usage"} /\ NothingStarted)
    /\ [][(srv \in {"nofile", "usage"}) => (srv' = srv)]_vars

\* run_server found no file at the path: nothing is bound, nobody is served
C13_Witness ==
    /\ srv = "nofile"
    /\ strategy \in choices
    /\ NothingStarted

\* ---------------------------------------------------------------------- C14
\* C14: for every density table and every brightness 0..255, the index chosen by
\* brightness_to_ascii is inside the table and is at least the index chosen for any
\* smaller brightness; brightness 0 gives the table's first symbol and brightness
\* 255 its last symbol.
C14_Monotone ==
    result.fn = "brightness_to_ascii" =>
        LET t == call.density
            chars == DENSITY[t + 1]
            v2 == call.i.n \div Scale
        IN  /\ result.index \in 0..(Len(chars) - 1)
            /\ result.char = chars[result.index + 1]
            /\ \A v1 \in 0..v2 : brightness_index(Exact(v1), t) <= result.index
            /\ v2 = 0 => result.index = 0 /\ result.char = chars[1]
            /\ v2 = 255 => result.index = Len(chars) - 1 /\ result.char = chars[Len(chars)]

\* brightness 255 looked up in the longest table: its last symbol
C14_Witness ==
    /\ result.fn = "brightness_to_ascii"
    /\ call.i = Exact(255)
    /\ call.density = 3
    /\ result.index = 58
    /\ result.char = "#"

\* ---------------------------------------------------------------------- C15
\* C15: for whole r, g, b in 0..255, rgb_to_ansi returns 16, 230 or a value of
\* 232..255 when r = g = b, and a value of 16..231 for every other triple; so every
\* result lies in 16..255.
C15_AnsiRange ==
    result.fn = "rgb_to_ansi" =>
        /\ (call.r = call.g /\ call.g = call.b) => result.ansi \in {16, 230} \cup 232..255
        /\ ~(call.r = call.g /\ call.g = call.b) => result.ansi \in 16..231
        /\ result.ansi \in 16..255

\* the brightest gray below the white limit gets the last gray of the ramp, white
\* itself gets 230
C15_Witness ==
    /\ result.fn = "rgb_to_ansi"
    /\ call.r = call.g /\ call.g = call.b
    /\ \/ call.r = 248 /\ result.ansi = 255
       \/ call.r = 255 /\ result.ansi = 230

\* ---------------------------------------------------------------------- C16
\* the printable characters of a row: its cells and what ends it in padding mode
RowWidth(row) ==
    LET Sum[i \in 0..Len(row.cells)] == IF i = 0 THEN 0 ELSE Sum[i - 1] + row.cells[i].n
    IN  Sum[Len(row.cells)] + (IF row.end.s = " " THEN row.end.n ELSE 0)

\* C16: for every terminal column count and every source width w the compositor
\* puts printingWidth = floor(min(columns, 2w) / 2) cells in each row and
\* pad = columns - 2 * printingWidth >= 0 after it, so that in padding mode every
\* row is exactly `columns` printable characters wide; for 80 columns both w = 40
\* and w = 60 give printingWidth = 40 and pad = 0.
C16_RowWidth ==
    result.fn = "convert_frame_pixels_to_ascii" =>
        LET cols == call.cols
            w == call.frame.w
            rows == result.msg.rows
        IN  /\ result.printing_width = Min(cols, 2 * w) \div 2
            /\ result.pad = cols - 2 * result.printing_width
            /\ result.pad >= 0
            /\ \A j \in DOMAIN rows :
                  /\ Len(rows[j].cells) = result.printing_width
                  /\ \A i \in DOMAIN rows[j].cells : rows[j].cells[i].n = 2
                  /\ ~call.new_line_chars =>
                        /\ rows[j].end = [s |-> " ", n |-> result.pad]
                        /\ RowWidth(rows[j]) = cols
            /\ (cols = 80 /\ w \in {40, 60}) => result.printing_width = 40 /\ result.pad = 0

\* the cinematic compositor in padding mode: a 60-column frame on 80 columns is cut
\* to 40 cells without pad, or a 2-column frame on 7 columns gets 2 cells and 3
\* spaces
C16_Witness ==
    /\ result.fn = "convert_frame_pixels_to_ascii"
    /\ call.strategy = "cinematic"
    /\ ~call.new_line_chars
    /\ call.frame.h = 3
    /\ \/ /\ call.cols = 80 /\ call.frame.w = 60
          /\ Len(result.msg.rows[1].cells) = 40 /\ result.msg.rows[2].end.n = 0
       \/ /\ call.cols = 7 /\ call.frame.w = 2
          /\ Len(result.msg.rows[1].cells) = 2 /\ result.msg.rows[2].end.n = 3

\* ---------------------------------------------------------------------- C17
\* the cells of a frame's text, row after row
CellCount(msg) ==
    LET Sum[j \in 0..Len(msg.rows)] ==
            IF j = 0 THEN 0 ELSE Sum[j - 1] + Len(msg.rows[j].cells)
    IN  Sum[Len(msg.rows)]

\* C17: a 2x2 all-white frame rendered with just-ascii (on a terminal wide enough
\* for it) gives the brightest glyph of the first density table doubled, four times
\* (one doubled glyph per source pixel), each row ended per the padding rule, and
\* "\r\n" at the end.
C17_WhiteFrame ==
    (/\ result.fn = "convert_frame_pixels_to_ascii"
     /\ call.strategy = "just-ascii"
     /\ call.frame = [h |-> 2, w |-> 2, v |-> MaxBright]
     /\ call.cols >= 4)
    => /\ CellCount(result.msg) = 4
       /\ \A j \in DOMAIN result.msg.rows :
             /\ \A i \in DOMAIN result.msg.rows[j].cells :
                   result.msg.rows[j].cells[i] = Cell(CHARS_LIGHT[Len(CHARS_LIGHT)], NoColor)
             /\ result.msg.rows[j].end =
                   RowEnd(call.cols, call.frame.w, call.new_line_chars)
       /\ result.msg.end = "\r\n"

\* ---------------------------------------------------------------------- C18
\* C18: whatever sizes the successive resize_frame calls of a cinematic instance
\* have, each call returns the frame resized to its size and leaves the gray frame
\* and the gradient fields of that size, and a further call and the classification
\* of every pixel of the frame can follow; every classification of a pixel of that
\* frame gives a glyph and indexes the motion mask and the gradient fields only
\* inside their shapes, also when the mask is a stale one of another size.
C18_SizeChange ==
    /\ result.fn = "resize_frame" =>
          /\ result.frame.h = call.h /\ result.frame.w = call.w
          /\ \A a \in {"prev_gray", "gradient_direction", "gradient_magnitude"} :
                /\ cin[a].some /\ cin[a].gen = cin.frame_count
                /\ cin[a].h = call.h /\ cin[a].w = call.w
          /\ \A y \in 0..(result.frame.h - 2), x \in 0..(result.frame.w - 1) :
                ENABLED DoApplyPixel(y, x)
          /\ cin.frame_count < MaxCalls =>
                \A h \in FrameSizes, w \in FrameSizes :
                    ENABLED DoResizeFrame(h, w, MidGray, FALSE, "none", WeakEdge, 0)
    /\ result.fn = "apply_pixel_to_ascii_strategy" =>
          /\ result.cell # IndexError
          /\ \A a \in result.reads :
                cin[a].some /\ call.y < cin[a].h /\ call.x < cin[a].w

\* a pixel outside a stale, full mask of a smaller size is classified by the strong
\* gradient at its place
C18_Witness ==
    /\ result.fn = "apply_pixel_to_ascii_strategy"
    /\ cin.human_mask.some /\ cin.human_mask.on = "all"
    /\ cin.human_mask.gen < cin.frame_count
    /\ cin.human_mask.w < result.frame.w
    /\ call.x >= cin.human_mask.w
    /\ result.reads = {"gradient_magnitude", "gradient_direction"}
    /\ result.cell.char = "-"

\* ---------------------------------------------------------------------- C19
\* C19: a resize_frame call whose optical flow raises leaves the motion mask and
\* the stored motion magnitude exactly as they were, stores the gray frame and the
\* gradient fields of the current frame and returns the resized frame; after it,
\* the frame's pixels can be classified and further resize_frame calls can be made.
C19_FlowError ==
    /\ [][(/\ cin'.frame_count = cin.frame_count + 1
           /\ result'.fn = "resize_frame"
           /\ result'.flow = "raised")
          => (/\ cin'.human_mask = cin.human_mask
              /\ cin'.prev_motion = cin.prev_motion
              /\ cin'.prev_gray = Array(call'.h, call'.w, cin'.frame_count, "none", 0, 0)
              /\ cin'.gradient_magnitude.some /\ cin'.gradient_direction.some
              /\ cin'.gradient_magnitude.gen = cin'.frame_count
              /\ cin'.gradient_direction.gen = cin'.frame_count
              /\ result'.frame.h = call'.h /\ result'.frame.w = call'.w)]_vars
    /\ []((result.fn = "resize_frame" /\ result.flow = "raised") =>
            /\ \A y \in 0..(result.frame.h - 2), x \in 0..(result.frame.w - 1) :
                  ENABLED DoApplyPixel(y, x)
            /\ cin.frame_count < MaxCalls =>
                  \A h \in FrameSizes, w \in FrameSizes, raises \in BOOLEAN :
                      ENABLED DoResizeFrame(h, w, MidGray, raises, "all", StrongEdge, 0))

\* the optical flow of the fourth frame raised although the size had not changed:
\* the mask and the motion magnitude are still those of the second frame
C19_Witness ==
    /\ result.fn = "resize_frame" /\ result.flow = "raised"
    /\ cin.frame_count = 4
    /\ cin.human_mask.some /\ cin.human_mask.gen = 2 /\ cin.human_mask.on = "all"
    /\ cin.prev_motion.some /\ cin.prev_motion.gen = 2
    /\ cin.prev_frames[2].h = cin.prev_gray.h /\ cin.prev_frames[2].w = cin.prev_gray.w
    /\ cin.prev_gray.gen = 4

\* ---------------------------------------------------------------------- C20
\* the symbols of a table
Symbols(chars) == {chars[i] : i \in DOMAIN chars}

\* the classified pixel lies inside the current motion mask
InMask ==
    /\ cin.human_mask.some
    /\ call.x < cin.human_mask.w /\ call.y < cin.human_mask.h
    /\ MaskAt(cin.human_mask, call.y, call.x) > 0

\* C20: a pixel inside the current motion mask always gets one of the 5 emphasis
\* glyphs, the one at index min(int(brightness / 256 * 5), 4), colored with its
\* own color, also when its gradient magnitude exceeds 0.5; a directional glyph
\* is returned only for a pixel outside the mask whose gradient magnitude is
\* above 0.5; every other pixel gets the glyph of the density table, as
\* pixel_to_ascii(pixel, density=1) gives it.
C20_TieBreak ==
    result.fn = "apply_pixel_to_ascii_strategy" =>
        LET v == result.frame.v
            char == result.cell.char
        IN  /\ InMask =>
                  /\ char \in Symbols(HUMAN_CHARS)
                  /\ Min((5 * v) \div 256, 4) \in 0..4
                  /\ result.cell = Cell(HUMAN_CHARS[Min((5 * v) \div 256, 4) + 1],
                                         rgb_to_ansi(v, v, v))
            /\ char \in {"-", "|"} => ~InMask /\ cin.gradient_magnitude.mag > 50
            /\ (~InMask /\ char \notin {"-", "|"}) =>
                  /\ char \in Symbols(CHARS_COLOR)
                  /\ result.cell = pixel_to_ascii(Pixel(v), TRUE, 1)

\* a white pixel inside the mask on a strong horizontal edge gets the last emphasis
\* glyph, not the stroke
C20_Witness ==
    /\ result.fn = "apply_pixel_to_ascii_strategy"
    /\ InMask
    /\ cin.human_mask.on = "left"
    /\ cin.gradient_magnitude.mag = StrongEdge
    /\ cin.gradient_direction.angle = 0
    /\ result.frame.v = MaxBright
    /\ result.cell.char = "&"

\* ---------------------------------------------------------------------- C21
\* C21: after any sequence of resize_frame calls on a cinematic instance its frame
\* history holds at most 3 frames, and they are the frames of the most recent
\* calls, each of the size its call resized it to, in the order of the calls.
C21_History ==
    /\ [](LET frames == cin.prev_frames
              k == Len(frames)
          IN  /\ k <= 3
              /\ k = Min(cin.frame_count, 3)
              /\ \A i \in 1..k : frames[i].some /\ frames[i].gen = cin.frame_count - k + i
              /\ k > 0 => /\ frames[k].h = cin.prev_gray.h
                           /\ frames[k].w = cin.prev_gray.w)
    /\ [][cin'.frame_count = cin.frame_count + 1 =>
            /\ cin'.prev_frames[Len(cin'.prev_frames)]
                   = Array(call'.h, call'.w, cin'.frame_count, "none", 0, 0)
            /\ \A i \in 1..(Len(cin'.prev_frames) - 1) :
                  \E j \in 1..Len(cin.prev_frames) :
                      /\ cin'.prev_frames[i] = cin.prev_frames[j]
                      /\ Len(cin'.prev_frames) - i = Len(cin.prev_frames) - j + 1]_vars

\* the fourth frame evicted the first: the history holds the second, third and fourth
C21_Witness ==
    /\ cin.frame_count = 4
    /\ Len(cin.prev_frames) = 3
    /\ cin.prev_frames[1].gen = 2
    /\ cin.prev_frames[3].gen = 4
    /\ cin.prev_frames[1].h # cin.prev_frames[3].h

\* ---------------------------------------------------------------------- C22
\* nothing of a session exists on the connection: nothing was sent or is about to
\* be, no engine was set up, no decoder was opened
NoSession(s) ==
    /\ log[s] = <<>> /\ snd[s] = NoSend
    /\ render_strategy[s] = 0 /\ cap[s] = "none"
    /\ pos[s] = 0 /\ frame_count[s] = 0 /\ output[s] = NoOutput

\* C22: nothing is sent on a connection's channel, and no engine or decoder is
\* set up, before a channel has been accepted and a shell request received; when
\* transport.accept or the wait for the shell request ends without them,
\* handle_client goes straight to closing the transport, without any streaming.
C22_ShellFirst ==
    \A s \in Sess :
        /\ ~NoSession(s) => chan[s] # "none" /\ event[s]
        /\ pc[s] \in {"idle", "hc_start", "hc_accept", "hc_wait"} => NoSession(s)
        /\ (pc[s] \in {"hc_finally", "done"} /\ (chan[s] = "none" \/ ~event[s])) =>
              /\ NoSession(s)
              /\ pc[s] = "done" => transport[s] = "closed"

\* the client opened a channel and stayed connected, but never asked for a shell:
\* the connection is closed and nothing was sent
C22_Witness ==
    /\ pc[1] = "done" /\ transport[1] = "closed"
    /\ peer[1] /\ chan[1] = "closed" /\ ~event[1]
    /\ NoSession(1)

\* ---------------------------------------------------------------------- C23
\* C23: the column count and the row count on which a frame is rendered come from
\* the same PTY negotiation: a frame whose columns are those of one of the
\* connection's negotiations and whose rows are those of one of them has the
\* columns and the rows of one and the same negotiation.
C23_SameNegotiation ==
    \A s \in Sess :
        LET o == output[s]
            N == negotiated[s]
        IN  (/\ o # NoOutput
             /\ \E n \in N : o.cols = Cols(n[1])
             /\ \E n \in N : o.rows = Rows(n[2]))
                => \E n \in N : o.cols = Cols(n[1]) /\ o.rows = Rows(n[2])

\* ---------------------------------------------------------------------- C24
\* the positions of a connection's thread inside stream_to_client
StreamPcs == {"send", "st_open", "st_loop", "st_rows", "st_pace", "st_release", "st_except",
              "st_finally"}

\* C24: whichever way handle_client ends (no channel, no shell request, an
\* exception, a stream that ran to its end) the connection's transport is closed
\* when it has ended, and whichever way stream_to_client ends (the source does not
\* open, the source is exhausted, a send fails, an exception) the channel is closed
\* when it returns.
C24_Closed ==
    /\ [](\A s \in Sess :
             /\ pc[s] = "done" => transport[s] = "closed"
             /\ (pc[s] \in {"hc_finally", "done"} /\ render_strategy[s] # 0) =>
                    chan[s] = "closed")
    /\ [][\A s \in Sess :
             /\ (pc[s] # "done" /\ pc'[s] = "done") => transport'[s] = "closed"
             /\ (pc[s] \in StreamPcs /\ render_strategy[s] # 0 /\ pc'[s] \notin StreamPcs) =>
                    chan'[s] = "closed"]_vars

\* a stream that ended in the except branch, with the decoder still open: channel
\* and transport are closed
C24_Witness ==
    /\ pc[1] = "done" /\ cap[1] = "open"
    /\ \E i \in 1..Len(log[1]) : log[1][i].k = "error_msg"
    /\ chan[1] = "closed" /\ transport[1] = "closed"

\* ---------------------------------------------------------------------- C25
\* C25: every remote session terminates. Under fair scheduling of the connection's
\* thread, and with a source of finitely many frames, a connection whose thread
\* has started comes to its end with the transport closed and no channel left open,
\* and a session that has entered stream_to_client comes to its end with channel
\* and transport closed, whether its sends succeed or fail.
C25_Terminates ==
    \A s \in Sess :
        /\ (pc[s] # "idle") ~>
               (pc[s] = "done" /\ transport[s] = "closed" /\ chan[s] # "open")
        /\ (pc[s] \in StreamPcs /\ render_strategy[s] # 0) ~>
               (pc[s] = "done" /\ transport[s] = "closed" /\ chan[s] = "closed")

\* a session that read the whole source and released it, closed
C25_Witness ==
    /\ pc[1] = "done" /\ pos[1] = MaxFrames /\ frame_count[1] = MaxFrames
    /\ cap[1] = "released"
    /\ chan[1] = "closed" /\ transport[1] = "closed"

\* ---------------------------------------------------------------------- C26
\* the line-ending symbols
LineEnds == {"\r", "\n", "\r\n"}

\* C26: for a frame of height h the compositor gives exactly h-1 rows of cells
\* (the last row of the frame is not rendered); each row is ended by a newline in
\* newline mode and by the pad in padding mode, never by both; the text ends with
\* "\r\n", and no carriage return stands anywhere before it; a frame of height 1
\* gives the terminator alone.
C26_Rows ==
    result.fn = "convert_frame_pixels_to_ascii" =>
        LET rows == result.msg.rows
            h == call.frame.h
        IN  /\ Len(rows) = h - 1
            /\ \A j \in DOMAIN rows :
                  /\ \A i \in DOMAIN rows[j].cells : rows[j].cells[i].char \notin LineEnds
                  /\ rows[j].end.s \in {"\n", " "}
                  /\ call.new_line_chars <=> rows[j].end.s = "\n"
                  /\ rows[j].end.s = "\n" => rows[j].end.n = 1
                  /\ rows[j].end.s = " " => rows[j].end.n = result.pad
            /\ result.msg.end = "\r\n"
            /\ h = 1 => CellCount(result.msg) = 0 /\ rows = <<>>

\* a frame of MaxFrameH rows in newline mode: MaxFrameH - 1 rows, each ended by
\* one newline
C26_Witness ==
    /\ result.fn = "convert_frame_pixels_to_ascii"
    /\ call.frame.h = MaxFrameH /\ call.new_line_chars
    /\ Len(result.msg.rows) = MaxFrameH - 1
    /\ result.msg.rows[MaxFrameH - 1].end = [s |-> "\n", n |-> 1]
    /\ Len(result.msg.rows[1].cells) > 0

\* ---------------------------------------------------------------------- C27
\* C27: for every whole brightness v of 0..255 and every density table,
\* brightness_to_ascii returns the table's entry at index round((len - 1) * v / 255):
\* the nearest index, not the truncated one.
C27_Nearest ==
    result.fn = "brightness_to_ascii" =>
        LET chars == DENSITY[call.density + 1]
            v == call.i.n \div Scale
        IN  /\ result.index = Round((Len(chars) - 1) * v, MaxBright)
            /\ result.char = chars[Round((Len(chars) - 1) * v, MaxBright) + 1]

\* ---------------------------------------------------------------------- C28
\* round(n / d) of the reference mapping: the nearest whole number, a tie going up
Nearest(n, d) == (2 * n + d) \div (2 * d)

\* C28: for whole r, g, b in 0..255, rgb_to_ansi equals the reference mapping:
\* when r = g = b it is 16 below 8, 230 above 248 and 232 + round((r - 8) / 247 * 24)
\* between; otherwise it is 16 + 36 * round(r / 51) + 6 * round(g / 51) + round(b / 51).
C28_Reference ==
    result.fn = "rgb_to_ansi" =>
        LET r == call.r
            g == call.g
            b == call.b
        IN  result.ansi =
                IF r = g /\ g = b
                THEN (CASE r < 8 -> 16
                        [] r > 248 -> 230
                        [] OTHER -> 232 + Nearest((r - 8) * 24, 247))
                ELSE 16 + 36 * Nearest(r, 51) + 6 * Nearest(g, 51) + Nearest(b, 51)

\* an orange: (255, 120, 30) gives 16 + 36 * 5 + 6 * 2 + 1
C28_Witness ==
    /\ result.fn = "rgb_to_ansi"
    /\ call.r = 255 /\ call.g = 120 /\ call.b = 30
    /\ result.ansi = 209

\* ---------------------------------------------------------------------- C29
\* the classified pixel has a gradient magnitude above 0.5
StrongAt ==
    /\ cin.gradient_magnitude.some
    /\ call.x < cin.gradient_magnitude.w /\ call.y < cin.gradient_magnitude.h
    /\ cin.gradient_magnitude.mag > 50

\* the angle ranges of the two strokes, in tenths of a degree
Horizontal(a) == (-225 <= a /\ a < 225) \/ (1575 <= a /\ a <= 1800) \/ (-1800 <= a /\ a < -1575)
Vertical(a) == (675 <= a /\ a < 1125) \/ (-1125 <= a /\ a < -675)

\* C29: for a pixel outside the motion mask whose gradient magnitude exceeds 0.5,
\* an angle in [-22.5, 22.5), [157.5, 180] or [-180, -157.5) gives the horizontal
\* stroke and an angle in [67.5, 112.5) or [-112.5, -67.5) the vertical stroke, both
\* in the pixel's color; every other angle falls through, and a pixel that falls
\* through or whose magnitude is at most 0.5 gets the colored glyph of the minimal
\* density table (the first, of 11 symbols).
C29_Directional ==
    (result.fn = "apply_pixel_to_ascii_strategy" /\ ~InMask) =>
        LET v == result.frame.v
            a == cin.gradient_direction.angle
        IN  /\ (StrongAt /\ Horizontal(a)) => result.cell = Cell("-", rgb_to_ansi(v, v, v))
            /\ (StrongAt /\ Vertical(a)) => result.cell = Cell("|", rgb_to_ansi(v, v, v))
            /\ (~StrongAt \/ (~Horizontal(a) /\ ~Vertical(a))) =>
                   /\ result.cell.char \in Symbols(CHARS_LIGHT)
                   /\ result.cell = pixel_to_ascii(Pixel(v), TRUE, 0)

\* ---------------------------------------------------------------------- C30
\* the boosted color of a gray pixel of level v, in tenths of a level: as the
\* function computes it (rgb_enhanced), and as saturation * 1.4 and value * 1.1 on
\* the unit scale give it (the gray of level min(1.1 * v, 255))
Boosted(v) == {rgb_enhanced(Pixel(v))[1], Min(11 * v, 10 * MaxBright)}

\* glyph and color looked up for a gray of e tenths of a level in the detailed table
DetailedCell(e) ==
    Cell(brightness_to_ascii(Float(e * (Scale \div 10), FALSE), 3),
         rgb_to_ansi(e \div 10, e \div 10, e \div 10))

\* C30: the adaptive strategy returns, for a pixel, the glyph of the detailed table
\* and the ANSI color that are looked up for the pixel's color after its saturation
\* was boosted by 40% and its value by 10% (each clamped to 1.0): the boosted color,
\* not the original one, is what the lookups are given.
C30_Boosted ==
    result.fn = "adaptive.apply_pixel_to_ascii_strategy" =>
        /\ result.cell.char \in Symbols(CHARS_DETAILED)
        /\ \E e \in Boosted(call.pixel[3]) : result.cell = DetailedCell(e)

\* ---------------------------------------------------------------------- C31
\* the visible characters of each line of a rendered frame: new_width cells of two
\* characters
LineWidth(o) == 2 * NewWidth(o.cols)

\* C31: for every negotiated terminal size (width, height), a frame sent to the
\* client is rendered on the grid cols = max(30, min(width - 5, 80)),
\* rows = max(15, min(height - 5, 35)), has `rows` lines of 2 * floor(0.4 * cols)
\* visible characters, and fits the terminal: at most `height` lines, each of at
\* most `width` visible characters.
C31_Fits ==
    \A s \in Sess :
        (pty_req[s] # NoPty /\ snd[s].k = "frame" /\ snd[s].i > 0) =>
            LET width == pty_req[s][1]
                height == pty_req[s][2]
                o == output[s]
            IN  /\ o.cols = Max(30, Min(width - 5, 80))
                /\ o.rows = Max(15, Min(height - 5, 35))
                /\ LineWidth(o) = 2 * ((4 * o.cols) \div 10)
                /\ o.rows <= height
                /\ LineWidth(o) <= width

====
